---------------------------- MODULE Spec2Model ----------------------------
(***************************************************************************)
(* A model of the collision engine of p5.play (src/p5.play.js): the SAT    *)
(* shapes (p5.CollisionShape and its variants), the swept broad phase, the *)
(* sub-stepped narrow phase and the five resolution policies of Sprite.    *)
(*                                                                         *)
(* Numbers are exact rationals <<n, d>> (d > 0, lowest terms): the code    *)
(* computes in IEEE doubles, the model in the reals they approximate.      *)
(***************************************************************************)
EXTENDS Integers, Sequences, FiniteSets, TLC

-----------------------------------------------------------------------------
(* Exact rational arithmetic *)

Abs(i) == IF i < 0 THEN -i ELSE i

RECURSIVE GCD(_, _)
GCD(a, b) == IF b = 0 THEN a ELSE GCD(b, a % b)

NormBy(n, d, g) ==
  IF d < 0 THEN <<(-n) \div g, (-d) \div g>> ELSE <<n \div g, d \div g>>

Norm(n, d) == IF n = 0 THEN <<0, 1>> ELSE NormBy(n, d, GCD(Abs(n), Abs(d)))

Q(i) == <<i, 1>>
Frac(n, d) == Norm(n, d)
QZero == <<0, 1>>
QOne == <<1, 1>>

QAdd(a, b) == Norm(a[1] * b[2] + b[1] * a[2], a[2] * b[2])
QNeg(a) == <<-a[1], a[2]>>
QSub(a, b) == Norm(a[1] * b[2] - b[1] * a[2], a[2] * b[2])
QMul(a, b) == Norm(a[1] * b[1], a[2] * b[2])
QDiv(a, b) == Norm(a[1] * b[2], a[2] * b[1])

\* a / b < c / d for non-negative fractions, by their continued fractions:
\* no product is formed, so no intermediate value leaves the integers of TLC.
RECURSIVE FracLt(_, _, _, _)
FracLt(a, b, c, d) ==
  IF a \div b # c \div d THEN a \div b < c \div d
  ELSE IF c % d = 0 THEN FALSE
  ELSE IF a % b = 0 THEN TRUE
  ELSE FracLt(d, c % d, b, a % b)

QLt(a, b) ==
  CASE a[1] < 0 /\ b[1] >= 0 -> TRUE
    [] a[1] >= 0 /\ b[1] < 0 -> FALSE
    [] a[1] >= 0 /\ b[1] >= 0 -> FracLt(a[1], a[2], b[1], b[2])
    [] OTHER -> FracLt(-b[1], b[2], -a[1], a[2])
QLe(a, b) == ~QLt(b, a)
QAbs(a) == <<Abs(a[1]), a[2]>>
QMax(a, b) == IF QLt(a, b) THEN b ELSE a
QMin(a, b) == IF QLt(b, a) THEN b ELSE a
QSign(a) == IF a[1] > 0 THEN 1 ELSE IF a[1] < 0 THEN -1 ELSE 0

RECURSIVE ISqrtRec(_, _, _)
ISqrtRec(n, lo, hi) ==
  IF lo >= hi THEN lo
  ELSE IF ((lo + hi + 1) \div 2) * ((lo + hi + 1) \div 2) <= n
       THEN ISqrtRec(n, (lo + hi + 1) \div 2, hi)
       ELSE ISqrtRec(n, lo, ((lo + hi + 1) \div 2) - 1)

\* 46340 is the largest integer whose square TLC can hold
ISqrt(n) == ISqrtRec(n, 0, IF n < 46340 THEN n ELSE 46340)
IsRootOf(r, n) == r * r = n
IsSquare(n) == IsRootOf(ISqrt(n), n)

\* A non-negative rational in lowest terms has a rational root iff both terms
\* are squares. Math.sqrt of any other value is irrational: the model only
\* takes roots where IsSquareQ holds (see RationalMTV).
IsSquareQ(a) == a[1] >= 0 /\ IsSquare(a[1]) /\ IsSquare(a[2])
QSqrt(a) == <<ISqrt(a[1]), ISqrt(a[2])>>

-----------------------------------------------------------------------------
(* p5.Vector, two components *)

Vec(x, y) == [x |-> x, y |-> y]
VecI(i, j) == Vec(Q(i), Q(j))
VZero == VecI(0, 0)
VAdd(a, b) == Vec(QAdd(a.x, b.x), QAdd(a.y, b.y))
VSub(a, b) == Vec(QSub(a.x, b.x), QSub(a.y, b.y))
VMult(a, k) == Vec(QMul(a.x, k), QMul(a.y, k))
VDot(a, b) == QAdd(QMul(a.x, b.x), QMul(a.y, b.y))
VMagSq(a) == VDot(a, a)
VIsZero(a) == a.x[1] = 0 /\ a.y[1] = 0
VMag(a) == QSqrt(VMagSq(a))

\* p5.Vector.project(a, b): b * (a.b / b.b)
VProject(a, b) == VMult(b, QDiv(VDot(a, b), VDot(b, b)))

\* p5.Vector.prototype.isParallel with the default tolerance 1e-14. The
\* coordinates of the model are rationals with small denominators, for which
\* "closer than 1e-14" and "equal" coincide. A division by zero gives an
\* infinity or NaN in the code, and the comparison is then false.
isParallel(v1, v2) ==
  \/ v1.x[1] = 0 /\ v2.x[1] = 0
  \/ v1.y[1] = 0 /\ v2.y[1] = 0
  \/ /\ v2.x[1] # 0
     /\ v2.y[1] # 0
     /\ QDiv(v1.x, v2.x) = QDiv(v1.y, v2.y)

X_AXIS == VecI(1, 0)
Y_AXIS == VecI(0, 1)
WORLD_AXES == <<X_AXIS, Y_AXIS>>

-----------------------------------------------------------------------------
(* Collision shapes: p5.CollisionShape and its four variants.               *)
(* A shape caches its world-space centre and, by variant, a scaled radius   *)
(* or two half diagonals (and, for an oriented box, two face normals).      *)
(* The owning sprite has scale 1 and rotation 0, the values it is created   *)
(* with, so the parent transform is the translation by sprite.position.     *)

BoxKinds == {"aabb", "obb"}
Half(q) == QDiv(q, Q(2))

\* Transform2D.rotate: <x, y> -> <cos x - sin y, sin x + cos y>; rot = <cos, sin>
Rotate(v, rot) ==
  Vec(QSub(QMul(rot.x, v.x), QMul(rot.y, v.y)),
      QAdd(QMul(rot.y, v.x), QMul(rot.x, v.y)))

NoRotation == VecI(1, 0)

PointCollider(pos, off) ==
  [kind |-> "point", center |-> VAdd(pos, off), offset |-> off,
   radius |-> QZero, scaledRadius |-> QZero, width |-> QZero, height |-> QZero,
   rot |-> NoRotation, hd |-> <<VZero, VZero>>, axes |-> <<VZero, VZero>>,
   getsDims |-> FALSE]

\* CircleCollider._computeScaledRadius: |T(<radius, 0>) - center|
CircleCollider(pos, off, r, dims) ==
  [kind |-> "circle", center |-> VAdd(pos, off), offset |-> off,
   radius |-> r, scaledRadius |-> QAbs(r), width |-> QZero, height |-> QZero,
   rot |-> NoRotation, hd |-> <<VZero, VZero>>, axes |-> <<VZero, VZero>>,
   getsDims |-> dims]

\* AxisAlignedBoundingBoxCollider._computeHalfDiagonals: the half extents
\* max(|d0.x|, |d1.x|) and max(|d1.y|, |d2.y|) of the transformed vertices
\* d0 = <w/2, -h/2>, d1 = <w/2, h/2>, d2 = <-w/2, h/2>
HalfDiagonalsOf(halfWidth, halfHeight) ==
  <<Vec(halfWidth, QNeg(halfHeight)), Vec(halfWidth, halfHeight)>>

AABBHalfDiagonals(w, h) ==
  HalfDiagonalsOf(QMax(QAbs(Half(w)), QAbs(Half(w))),
                  QMax(QAbs(Half(h)), QAbs(Half(h))))

AABBCollider(pos, off, w, h, dims) ==
  [kind |-> "aabb", center |-> VAdd(pos, off), offset |-> off,
   radius |-> QZero, scaledRadius |-> QZero, width |-> w, height |-> h,
   rot |-> NoRotation, hd |-> AABBHalfDiagonals(w, h),
   axes |-> <<VZero, VZero>>, getsDims |-> dims]

\* OrientedBoundingBoxCollider._onTransformChanged: the three transformed
\* vertices v0, v1, v2 give the half diagonals and the two face normals.
OBBOf(pos, off, w, h, rot, dims, v0, v1, v2) ==
  [kind |-> "obb", center |-> VAdd(pos, off), offset |-> off,
   radius |-> QZero, scaledRadius |-> QZero, width |-> w, height |-> h,
   rot |-> rot, hd |-> <<v0, v1>>, axes |-> <<VSub(v1, v2), VSub(v1, v0)>>,
   getsDims |-> dims]

OBBCollider(pos, off, w, h, rot, dims) ==
  OBBOf(pos, off, w, h, rot, dims,
        Rotate(Vec(Half(w), QNeg(Half(h))), rot),
        Rotate(Vec(Half(w), Half(h)), rot),
        Rotate(Vec(QNeg(Half(w)), Half(h)), rot))

\* new p5.OrientedBoundingBoxCollider() with no arguments, as setCollider
\* builds the swept collider: width and height are undefined, the vertices
\* are built from NaN, which the p5.Vector constructor (x || 0) turns into 0:
\* a box without extent at the world origin.
EmptyOBB ==
  [kind |-> "obb", center |-> VZero, offset |-> VZero,
   radius |-> QZero, scaledRadius |-> QZero, width |-> QZero, height |-> QZero,
   rot |-> NoRotation, hd |-> <<VZero, VZero>>, axes |-> <<VZero, VZero>>,
   getsDims |-> FALSE]

\* setParentTransform of a shape whose sprite moved to pos
MoveShape(s, pos) == [s EXCEPT !.center = VAdd(pos, s.offset)]

-----------------------------------------------------------------------------
(* Separating axis test *)

\* CircleCollider._getCandidateAxes against a box: the axis through the
\* circle's centre and the nearest of the four vertices (first minimum wins)
RECURSIVE ClosestOf(_, _, _)
ClosestOf(vs, i, best) ==
  IF i > Len(vs) THEN best
  ELSE IF QLt(VMagSq(vs[i]), VMagSq(best)) THEN ClosestOf(vs, i + 1, vs[i])
       ELSE ClosestOf(vs, i + 1, best)

ClosestVertex(vs) == ClosestOf(vs, 2, vs[1])

AxisToClosestVertex(s, other) ==
  ClosestVertex(<<VSub(VAdd(other.center, other.hd[1]), s.center),
                  VSub(VAdd(other.center, other.hd[2]), s.center),
                  VSub(VSub(other.center, other.hd[1]), s.center),
                  VSub(VSub(other.center, other.hd[2]), s.center)>>)

getCandidateAxes(s, other) ==
  CASE s.kind = "point" -> <<>>
    [] s.kind = "circle" ->
         IF other.kind \in BoxKinds THEN <<AxisToClosestVertex(s, other)>>
         ELSE <<VSub(other.center, s.center)>>
    [] s.kind = "aabb" -> WORLD_AXES
    [] s.kind = "obb" -> s.axes

\* deduplicateParallelVectors: an axis is kept unless a later one is parallel
Kept(array, i) == ~\E j \in (i + 1)..Len(array) : isParallel(array[i], array[j])

RECURSIVE Filtered(_, _)
Filtered(array, i) ==
  IF i > Len(array) THEN <<>>
  ELSE IF Kept(array, i) THEN <<array[i]>> \o Filtered(array, i + 1)
       ELSE Filtered(array, i + 1)

deduplicateParallelVectors(array) == Filtered(array, 1)

\* the map of _getCandidateAxesForShapes: a zero axis becomes the x axis
ZeroToXAxis(axes) == [i \in 1..Len(axes) |-> IF VIsZero(axes[i]) THEN X_AXIS ELSE axes[i]]

getCandidateAxesForShapes(shape1, shape2) ==
  deduplicateParallelVectors(
    ZeroToXAxis(getCandidateAxes(shape1, shape2) \o getCandidateAxes(shape2, shape1)))

\* a circle measured by its diameter
CircleDiameter(s) == IF s.kind = "circle" THEN QMul(Q(2), s.scaledRadius) ELSE QZero

\* _getRadiusOnAxis is the constant scaled radius of a circle, and for a box
\* max(|hd0.axis|, |hd1.axis|) / |axis|; BoxK is the latter's numerator.
CircleR(s) == IF s.kind = "circle" THEN s.scaledRadius ELSE QZero
BoxK(s, axis) ==
  IF s.kind \in BoxKinds
  THEN QMax(QAbs(VDot(s.hd[1], axis)), QAbs(VDot(s.hd[2], axis)))
  ELSE QZero

getRadiusOnAxis(s, axis) == QAdd(CircleR(s), QDiv(BoxK(s, axis), VMag(axis)))

\* The length of an axis does not enter the overlap measured on it: the model
\* measures on the axis scaled to a largest component of 1 and, where that has
\* a rational length, to length 1.
ToUnit(n, m) == IF IsSquareQ(m) THEN VMult(n, QDiv(QOne, QSqrt(m))) ELSE n
Rescaled(n) == ToUnit(n, VMagSq(n))
UnitLike(axis) == Rescaled(VMult(axis, QDiv(QOne, QMax(QAbs(axis.x), QAbs(axis.y)))))

\* The overlap r1 + r2 - distanceOfCentersOnAxis of collide, kept as the exact
\* real c + k / sqrt(m): c the circles' radii, m = axis.axis.
AxisOverlap(a, b, axis) ==
  [c |-> QAdd(CircleR(a), CircleR(b)),
   k |-> QSub(QAdd(BoxK(a, axis), BoxK(b, axis)),
              QAbs(VDot(VSub(b.center, a.center), axis))),
   m |-> VMagSq(axis)]

\* overlap <= 0. The scaled axis has 1 <= m <= 2, which decides the sign
\* without a square when |k| is not between c and 2c.
OvNonPositive(o) ==
  IF o.m = QOne THEN QLe(QAdd(o.c, o.k), QZero)
  ELSE /\ o.k[1] <= 0
       /\ \/ QLe(QMul(Q(2), o.c), QNeg(o.k))
          \/ /\ QLe(o.c, QNeg(o.k))
             /\ QLe(QMul(QMul(o.c, o.c), o.m), QMul(o.k, o.k))

\* overlap < smallestOverlap, both measured between the same two shapes
\* (the same c): k1 / sqrt(m1) < k2 / sqrt(m2)
OvLess(o1, o2) ==
  CASE o1.m = QOne /\ o2.m = QOne -> QLt(o1.k, o2.k)
    [] o1.k[1] >= 0 /\ o2.k[1] >= 0 ->
         QLt(QMul(QMul(o1.k, o1.k), o2.m), QMul(QMul(o2.k, o2.k), o1.m))
    [] o1.k[1] < 0 /\ o2.k[1] < 0 ->
         QLt(QMul(QMul(o2.k, o2.k), o1.m), QMul(QMul(o1.k, o1.k), o2.m))
    [] o1.k[1] < 0 /\ o2.k[1] >= 0 -> TRUE
    [] OTHER -> FALSE

NoAxis == [found |-> FALSE, sep |-> FALSE, o |-> [c |-> QZero, k |-> QZero, m |-> QOne],
           axis |-> X_AXIS, side |-> 0]

\* One turn of the loop of collide on an axis with overlap o: the early
\* return on a separating axis (sep), else the axis is remembered when its
\* overlap is the smallest so far, with the side of the axis on which the
\* displacer's centre lies (0: on neither).
OnAxis(a, b, axis, o, best) ==
  IF OvNonPositive(o) THEN [best EXCEPT !.sep = TRUE]
  ELSE IF ~best.found \/ OvLess(o, best.o)
  THEN [found |-> TRUE, sep |-> FALSE, o |-> o, axis |-> axis,
        side |-> QSign(VDot(VSub(b.center, a.center), axis))]
  ELSE best

Measured(a, b, axis, best) == OnAxis(a, b, axis, AxisOverlap(a, b, axis), best)

RECURSIVE SatLoop(_, _, _, _, _)
SatLoop(a, b, axes, i, best) ==
  IF i > Len(axes) \/ best.sep THEN best
  ELSE SatLoop(a, b, axes, i + 1, Measured(a, b, UnitLike(axes[i]), best))

Sat(a, b) == SatLoop(a, b, getCandidateAxesForShapes(a, b), 1, NoAxis)

\* smallestOverlapAxis.copy().setMag(-smallestOverlap): the unit vector of
\* deltaOfCentersOnAxis (of the axis itself when that is zero) times
\* -(c + k / sqrt(m)) = -(c / sqrt(m) + k / m) * axis, up to the side.
OverlapOverLength(o) ==
  QAdd(IF o.c[1] = 0 THEN QZero ELSE QDiv(o.c, QSqrt(o.m)), QDiv(o.k, o.m))

\* setMag(-smallestOverlap) without the side of the centres
SetMagUnsigned(r) == VMult(r.axis, QNeg(OverlapOverLength(r.o)))

SetMagOverlap(r) ==
  VMult(r.axis, IF r.side < 0 THEN OverlapOverLength(r.o)
                ELSE QNeg(OverlapOverLength(r.o)))

\* collide with its two outcomes: a vector, or the TypeError of
\* smallestOverlapAxis.copy() when no shape contributed an axis (two points)
Outcome(r) ==
  [threw |-> ~r.sep /\ ~r.found,
   d |-> IF r.sep \/ ~r.found THEN VZero ELSE SetMagOverlap(r)]

CollideResult(a, b) == Outcome(Sat(a, b))

collideThrows(a, b) == CollideResult(a, b).threw
collide(a, b) == CollideResult(a, b).d

\* CollisionShape.overlap: displacement.x !== 0 || displacement.y !== 0
overlap(a, b) == ~VIsZero(collide(a, b))

\* The displacement of collide is a rational vector: no circle is involved,
\* or the axis of smallest overlap has a rational length.
IsRational(r) == r.sep \/ ~r.found \/ r.o.c[1] = 0 \/ IsSquareQ(r.o.m)
RationalMTV(a, b) == IsRational(Sat(a, b))

-----------------------------------------------------------------------------
(* Sprites *)

NoCollider == [kind |-> "none"]
HasShape(c) == c.kind # "none"

NoTouching == [left |-> FALSE, right |-> FALSE, top |-> FALSE, bottom |-> FALSE]

\* new Sprite(pInst, x, y, w, h), then plain property assignments
NewSprite(pos, vel, w, h, imm, anim) ==
  [position |-> pos, previousPosition |-> pos, newPosition |-> pos,
   velocity |-> vel, width |-> w, height |-> h,
   mass |-> QOne, restitution |-> QOne, immovable |-> imm, removed |-> FALSE,
   animation |-> anim, collider |-> NoCollider, sweptCollider |-> NoCollider,
   touching |-> NoTouching]

\* Animation.getWidth / getHeight: 1 while the image is not there yet (a
\* loaded image has the size the sprite was created with)
AnimWidth(sp) == IF sp.animation = "loading" THEN QOne ELSE sp.width
AnimHeight(sp) == IF sp.animation = "loading" THEN QOne ELSE sp.height

\* the dimensions a shape takes from its sprite
DimW(sp) == IF sp.animation # "none" THEN AnimWidth(sp) ELSE sp.width
DimH(sp) == IF sp.animation # "none" THEN AnimHeight(sp) ELSE sp.height

\* updateFromSprite of the four variants: a shape that takes its dimensions
\* from the sprite re-reads them, then the parent transform is refreshed.
updateFromSprite(c, sp) ==
  CASE c.kind = "circle" /\ c.getsDims ->
         CircleCollider(sp.position, c.offset, Half(QMax(DimW(sp), DimH(sp))), TRUE)
    [] c.kind = "aabb" /\ c.getsDims ->
         AABBCollider(sp.position, c.offset, DimW(sp), DimH(sp), TRUE)
    [] c.kind = "obb" /\ c.getsDims ->
         OBBCollider(sp.position, c.offset, DimW(sp), DimH(sp), c.rot, TRUE)
    [] OTHER -> MoveShape(c, sp.position)

\* _getMinRadius: the scaled radius of a circle, min(width, height) of a box
getMinRadius(c) ==
  CASE c.kind = "circle" -> c.scaledRadius
    [] c.kind \in BoxKinds -> QMin(c.width, c.height)
    [] OTHER -> QZero

\* updateSweptColliderFromSprite: an oriented box along the velocity, from
\* the position at the end of the last update to that position plus the
\* velocity. (The sign that getScale gives the box when the velocity points
\* left reflects the box through its centre, which is the same box.)
SweptBox(sp, vMagnitude) ==
  OBBCollider(VAdd(sp.newPosition, VMult(sp.velocity, Frac(1, 2))), VZero,
              QAdd(vMagnitude, QMul(Q(2), getRadiusOnAxis(sp.collider, sp.velocity))),
              QMul(Q(2), getRadiusOnAxis(sp.collider,
                                         Vec(sp.velocity.y, QNeg(sp.velocity.x)))),
              VMult(sp.velocity, QDiv(QOne, vMagnitude)), FALSE)

updateSweptColliderFromSprite(sp) == SweptBox(sp, VMag(sp.velocity))

\* Sprite.update (friction 0, no speed limit, no rotation, no mouse handlers,
\* life -1: the values a sprite is created with)
Refreshed(sp) ==
  IF HasShape(sp.collider) THEN [sp EXCEPT !.collider = updateFromSprite(@, sp)] ELSE sp

SpriteUpdate(sp) ==
  IF sp.removed THEN sp
  ELSE Refreshed([sp EXCEPT
         !.sweptCollider = IF HasShape(sp.sweptCollider) /\ ~VIsZero(sp.velocity)
                           THEN updateSweptColliderFromSprite(sp) ELSE @,
         !.previousPosition = sp.newPosition,
         !.position = VAdd(sp.position, sp.velocity),
         !.newPosition = VAdd(sp.position, sp.velocity)])

\* The arguments of a setCollider call: the type, arguments.length, the
\* offset, and the size arguments, each a number, a string or undefined.
Num(q) == [t |-> "number", v |-> q]
Str == [t |-> "string", v |-> QZero]
Undef == [t |-> "undefined", v |-> QZero]
IsNumber(a) == a.t = "number"

setColliderThrows(type, n) ==
  \/ type \notin {"point", "circle", "rectangle", "aabb", "obb"}
  \/ type = "point" /\ n \notin {1, 3}
  \/ type = "circle" /\ n \notin {1, 3, 4}
  \/ type = "aabb" /\ n \notin {1, 3, 5}
  \/ type \in {"obb", "rectangle"} /\ n \notin {1, 3, 5, 6}

\* createFromSprite of the four variants: customSize decides between the
\* given size and the sprite's dimensions
createFromSprite(sp, type, off, w, h) ==
  CASE type = "point" -> PointCollider(sp.position, off)
    [] type = "circle" ->
         IF IsNumber(w) THEN CircleCollider(sp.position, off, w.v, FALSE)
         ELSE updateFromSprite(CircleCollider(sp.position, off, QOne, TRUE), sp)
    [] type = "aabb" ->
         IF IsNumber(w) /\ IsNumber(h)
         THEN AABBCollider(sp.position, off, w.v, h.v, FALSE)
         ELSE updateFromSprite(AABBCollider(sp.position, off, QOne, QOne, TRUE), sp)
    [] type \in {"obb", "rectangle"} ->
         IF IsNumber(w) /\ IsNumber(h)
         THEN OBBCollider(sp.position, off, w.v, h.v, NoRotation, FALSE)
         ELSE updateFromSprite(
                OBBCollider(sp.position, off, QOne, QOne, NoRotation, TRUE), sp)

\* Sprite.setCollider when it does not throw ('rectangle' is mapped to 'obb')
setCollider(sp, type, off, w, h) ==
  [sp EXCEPT !.collider = createFromSprite(sp, type, off, w, h),
             !.sweptCollider = EmptyOBB]

\* setDefaultCollider that does not wait for the animation
setDefaultColliderAtOnce(sp) == setCollider(sp, "rectangle", VZero, Undef, Undef)

\* Sprite.setDefaultCollider
setDefaultCollider(sp) ==
  IF sp.animation # "none" /\ AnimWidth(sp) = QOne /\ AnimHeight(sp) = QOne
  THEN sp
  ELSE setCollider(sp, "rectangle", VZero, Undef, Undef)

-----------------------------------------------------------------------------
(* Collision resolution: Sprite._findDisplacement, _collideWithOne,        *)
(* _collideWith. S is the function from sprites to their records.          *)

PolicyTypes == {"overlap", "displace", "collide", "bounce", "bounceOff"}

\* _getBroadPhaseCollider
getBroadPhaseCollider(sp) ==
  IF ~VIsZero(sp.velocity) THEN sp.sweptCollider ELSE sp.collider

\* _doSweptCollidersOverlap, as the outcome of the collide it calls
doSweptCollidersOverlap(spA, spT) ==
  CollideResult(getBroadPhaseCollider(spA), getBroadPhaseCollider(spT))

\* Math.max(0.015, radiusOnVelocityAxis / relativeVelocity); a zero relative
\* velocity makes the quotient Infinity or NaN, and timestep < 1 false.
MinTimestep == Frac(15, 1000)

\* TimestepOf with the lower limit at half of 0.015
TimestepOfLoose(radius, relSq) ==
  IF relSq[1] = 0 THEN QOne
  ELSE QMax(QMul(MinTimestep, Frac(1, 2)), QDiv(radius, QSqrt(relSq)))

TimestepOf(radius, relSq) ==
  IF relSq[1] = 0 THEN QOne ELSE QMax(MinTimestep, QDiv(radius, QSqrt(relSq)))

Timestep(spA, spT) ==
  TimestepOf(QMax(getMinRadius(spA.collider), getMinRadius(spT.collider)),
             VMagSq(VSub(spA.velocity, spT.velocity)))

\* the collider of sp after position.set(pos) and collider.updateFromSprite
ColliderAt(sp, pos) == updateFromSprite(sp.collider, [sp EXCEPT !.position = pos])

\* the position of sp after k sub-steps of delta d from its previous position
SubStepPosition(sp, d, k) == VAdd(sp.previousPosition, VMult(d, Q(k)))

NoHit == [k |-> 0, threw |-> FALSE, d |-> VZero]

\* for (i = timestep; i < 1; i += timestep): the body runs for k = 1, 2, ...
\* as long as k * timestep < 1, that is up to the last k below 1 / timestep
LastSubStep(ts) == (ts[2] - 1) \div ts[1]

\* the exact test of sub-step k: a displacement (or an error) stops the
\* loop there, a zero displacement lets it go on
Sampled(k, r) ==
  IF r.threw \/ ~VIsZero(r.d) THEN [k |-> k, threw |-> r.threw, d |-> r.d] ELSE NoHit

SubStepTest(spA, spT, dA, dT, k) ==
  Sampled(k, CollideResult(ColliderAt(spA, SubStepPosition(spA, dA, k)),
                           ColliderAt(spT, SubStepPosition(spT, dT, k))))

\* the first sub-step of lo..hi that stops the loop, NoHit when there is
\* none. The sub-steps are tested in the loop's order, each at most once;
\* the range is halved so that a long loop needs no deep evaluation.
RECURSIVE SubStepsFrom(_, _, _, _, _, _)
OrLater(hit, spA, spT, dA, dT, lo, hi) ==
  IF hit.k > 0 THEN hit ELSE SubStepsFrom(spA, spT, dA, dT, lo, hi)

SubStepsFrom(spA, spT, dA, dT, lo, hi) ==
  IF lo > hi THEN NoHit
  ELSE IF lo = hi THEN SubStepTest(spA, spT, dA, dT, lo)
  ELSE OrLater(SubStepsFrom(spA, spT, dA, dT, lo, (lo + hi) \div 2),
               spA, spT, dA, dT, ((lo + hi) \div 2) + 1, hi)

SubStepLoop(spA, spT, dA, dT, ts) ==
  SubStepsFrom(spA, spT, dA, dT, 1, LastSubStep(ts))

\* how many times the body of that loop ran: up to the sub-step that gave a
\* displacement (or threw), else once for every k with k * timestep < 1
SubStepsTaken(hit, ts) == IF hit.k > 0 THEN hit.k ELSE LastSubStep(ts)

\* the sub-steps of one _findDisplacement: none unless the broad-phase
\* shapes overlap and the timestep is below 1
SubSteps(spA, spT, broad, ts) ==
  IF broad.threw \/ VIsZero(broad.d) \/ ~QLt(ts, QOne) THEN 0
  ELSE SubStepsTaken(
         SubStepLoop(spA, spT, VMult(VSub(spA.position, spA.previousPosition), ts),
                     VMult(VSub(spT.position, spT.previousPosition), ts), ts), ts)

\* the last-minute update of both colliders and the exact test at the end
\* of _findDisplacement
WithOutcome(S, r) == [S |-> S, d |-> r.d, threw |-> r.threw, sub |-> FALSE]
Tested(S, a, t) == WithOutcome(S, CollideResult(S[a].collider, S[t].collider))

FinalTest(S, a, t) ==
  Tested([S EXCEPT ![a].collider = ColliderAt(S[a], S[a].position),
                   ![t].collider = ColliderAt(S[t], S[t].position)], a, t)

\* StoppedAt with every sprite left at the interpolated position, immovable
\* or not
StoppedAtInterpolated(S, a, t, pA, pT, hit) ==
  [S |-> [S EXCEPT ![a].collider = ColliderAt(S[a], pA),
                   ![t].collider = ColliderAt(S[t], pT),
                   ![a].position = pA,
                   ![t].position = pT],
   d |-> hit.d, threw |-> hit.threw, sub |-> TRUE]

\* a sub-step gave a displacement: an immovable sprite goes back to its
\* final position, any other stays at the interpolated one
StoppedAt(S, a, t, pA, pT, hit) ==
  [S |-> [S EXCEPT ![a].collider = ColliderAt(S[a], pA),
                   ![t].collider = ColliderAt(S[t], pT),
                   ![a].position = IF hit.threw \/ ~S[a].immovable THEN pA ELSE @,
                   ![t].position = IF hit.threw \/ ~S[t].immovable THEN pT ELSE @],
   d |-> hit.d, threw |-> hit.threw, sub |-> TRUE]

\* AfterSubSteps that, when no sub-step gave a displacement, leaves the two
\* sprites at the previous positions the sampling started from
AfterSubStepsAtStart(S, a, t, dA, dT, hit) ==
  IF hit.k > 0
  THEN StoppedAt(S, a, t, SubStepPosition(S[a], dA, hit.k),
                 SubStepPosition(S[t], dT, hit.k), hit)
  ELSE FinalTest([S EXCEPT ![a].position = S[a].previousPosition,
                           ![t].position = S[t].previousPosition], a, t)

\* the end of the sampling: stop at the sub-step that gave a displacement,
\* else (positions restored) go on to the final test
AfterSubSteps(S, a, t, dA, dT, hit) ==
  IF hit.k > 0
  THEN StoppedAt(S, a, t, SubStepPosition(S[a], dA, hit.k),
                 SubStepPosition(S[t], dT, hit.k), hit)
  ELSE FinalTest(S, a, t)

SubStepped(S, a, t, dA, dT, ts) ==
  AfterSubSteps(S, a, t, dA, dT, SubStepLoop(S[a], S[t], dA, dT, ts))

\* a narrow phase that the broad phase gates as a whole: no overlap of the
\* broad-phase shapes, no exact test
NarrowPhaseGated(S, a, t, broad, ts) ==
  IF broad.threw THEN [S |-> S, d |-> VZero, threw |-> TRUE, sub |-> FALSE]
  ELSE IF VIsZero(broad.d) THEN [S |-> S, d |-> VZero, threw |-> FALSE, sub |-> FALSE]
  ELSE IF QLt(ts, QOne)
  THEN SubStepped(S, a, t, VMult(VSub(S[a].position, S[a].previousPosition), ts),
                  VMult(VSub(S[t].position, S[t].previousPosition), ts), ts)
  ELSE FinalTest(S, a, t)

NarrowPhase(S, a, t, broad, ts) ==
  IF broad.threw THEN [S |-> S, d |-> VZero, threw |-> TRUE, sub |-> FALSE]
  ELSE IF ~VIsZero(broad.d) /\ QLt(ts, QOne)
  THEN SubStepped(S, a, t, VMult(VSub(S[a].position, S[a].previousPosition), ts),
                  VMult(VSub(S[t].position, S[t].previousPosition), ts), ts)
  ELSE FinalTest(S, a, t)

\* Sprite._findDisplacement(target) called on sprite a
findDisplacement(S, a, t) ==
  NarrowPhase(S, a, t, doSweptCollidersOverlap(S[a], S[t]), Timestep(S[a], S[t]))

\* the final velocity of a perfectly inelastic collision: the velocity of
\* the common centre of mass
FinalVelocityInelastic(mineInitial, theirsInitial, theirMass, e, momentum, combinedMass) ==
  VMult(momentum, QDiv(QOne, combinedMass))

\* the velocity response of a 'bounce' along the displacement: the parts of
\* the two velocities along it (thisInitial, otherInitial) are exchanged
\* according to the masses and the coefficient of restitution e
FinalVelocity(mineInitial, theirsInitial, theirMass, e, momentum, combinedMass) ==
  VMult(VAdd(VMult(VSub(theirsInitial, mineInitial), QMul(theirMass, e)), momentum),
        QDiv(QOne, combinedMass))

Exchange(vThis, vOther, thisInitial, otherInitial, thisMass, otherMass, e) ==
  [this |-> VAdd(VSub(vThis, thisInitial),
                 FinalVelocity(thisInitial, otherInitial, otherMass, e,
                               VAdd(VMult(thisInitial, thisMass),
                                    VMult(otherInitial, otherMass)),
                               QAdd(thisMass, otherMass))),
   other |-> VAdd(VSub(vOther, otherInitial),
                  FinalVelocity(otherInitial, thisInitial, thisMass, e,
                                VAdd(VMult(thisInitial, thisMass),
                                     VMult(otherInitial, otherMass)),
                                QAdd(thisMass, otherMass)))]

\* otherImmovable, otherRestitution: the target's immovable flag and
\* restitution as the type overrides them ('collide', 'bounceOff')
BounceVelocities(spA, spO, d, otherImmovable, otherRestitution) ==
  Exchange(spA.velocity, spO.velocity,
           VProject(spA.velocity, d), VProject(spO.velocity, d),
           IF spA.immovable THEN QOne ELSE IF otherImmovable THEN QZero ELSE spA.mass,
           IF spA.immovable THEN QZero ELSE IF otherImmovable THEN QOne ELSE spO.mass,
           QMul(spA.restitution, otherRestitution))

\* what _collideWithOne does once a displacement d was found: the touching
\* flags, the move of one sprite, the new velocities
Touched(S, a, d) ==
  [S EXCEPT ![a].touching = [left |-> @.left \/ QSign(d.x) > 0,
                             right |-> @.right \/ QSign(d.x) < 0,
                             bottom |-> @.bottom \/ QSign(d.y) < 0,
                             top |-> @.top \/ QSign(d.y) > 0]]

Placed(sp, pos) ==
  Refreshed([sp EXCEPT !.position = pos, !.previousPosition = pos, !.newPosition = pos])

Displaced(S, type, a, o, d) ==
  IF type = "displace" /\ ~S[o].immovable
  THEN [S EXCEPT ![o].position = VSub(@, d)]
  ELSE IF type \in {"collide", "bounce", "bounceOff"} /\ ~S[a].immovable
  THEN [S EXCEPT ![a] = Placed(@, VAdd(@.position, d))]
  ELSE S

WithVelocities(S, a, o, v) == [S EXCEPT ![a].velocity = v.this, ![o].velocity = v.other]

Rebound(S, type, a, o, d) ==
  IF type \in {"collide", "bounce", "bounceOff"}
  THEN WithVelocities(S, a, o,
         BounceVelocities(S[a], S[o], d,
           IF type \in {"collide", "bounceOff"} THEN TRUE ELSE S[o].immovable,
           IF type = "collide" THEN QZero ELSE S[o].restitution))
  ELSE S

Resolve(S, type, a, o, d) == Rebound(Displaced(Touched(S, a, d), type, a, o, d), type, a, o, d)

\* typeof callback === 'function' && type !== 'isTouching'
InvokesCallback(type, cb) == cb /\ type # "isTouching"

\* Sprite._collideWithOne(type, other, callback) on sprite a. st carries the
\* sprites, the log of callback invocations, whether an error was thrown,
\* the result of the last pair (hit) and of all pairs so far (result).
EnsureCollider(S, s) ==
  IF ~HasShape(S[s].collider) THEN [S EXCEPT ![s] = setDefaultCollider(@)] ELSE S

Found(st, f, type, a, o, cb) ==
  IF f.threw THEN [st EXCEPT !.S = f.S, !.threw = TRUE, !.hit = FALSE]
  ELSE IF VIsZero(f.d) THEN [st EXCEPT !.S = f.S, !.hit = FALSE]
  ELSE [S |-> Resolve(f.S, type, a, o, f.d),
        log |-> IF InvokesCallback(type, cb) THEN Append(st.log, <<a, o>>) ELSE st.log,
        threw |-> FALSE, hit |-> TRUE, result |-> TRUE,
        sub |-> st.sub \/ f.sub, mtvs |-> Append(st.mtvs, f.d)]

WithColliders(st, S, type, a, o, cb) ==
  IF ~HasShape(S[a].collider) \/ ~HasShape(S[o].collider)
  THEN [st EXCEPT !.S = S, !.hit = FALSE]
  ELSE Found(st, findDisplacement(S, a, o), type, a, o, cb)

\* collideWithOne that tests a removed sprite like any other
collideWithRemoved(st, type, a, o, cb) ==
  IF st.threw THEN st
  ELSE IF o = a THEN [st EXCEPT !.hit = FALSE]
  ELSE WithColliders(st, EnsureCollider(EnsureCollider(st.S, a), o), type, a, o, cb)

collideWithOne(st, type, a, o, cb) ==
  IF st.threw THEN st
  ELSE IF o = a \/ st.S[o].removed THEN [st EXCEPT !.hit = FALSE]
  ELSE WithColliders(st, EnsureCollider(EnsureCollider(st.S, a), o), type, a, o, cb)

\* the loop of _collideWith, left at the first collision
RECURSIVE collideUntilHit(_, _, _, _, _, _)
collideUntilHit(st, type, a, others, cb, i) ==
  IF i > Len(others) \/ st.threw \/ st.result THEN st
  ELSE collideUntilHit(collideWithOne(st, type, a, others[i], cb), type, a, others, cb, i + 1)

RECURSIVE collideLoop(_, _, _, _, _, _)
collideLoop(st, type, a, others, cb, i) ==
  IF i > Len(others) \/ st.threw THEN st
  ELSE collideLoop(collideWithOne(st, type, a, others[i], cb), type, a, others, cb, i + 1)

\* Sprite._collideWith(type, target, callback) on sprite a, the candidates
\* being the sequence others
Started(S) ==
  [S |-> S, log |-> <<>>, threw |-> FALSE, hit |-> FALSE,
   result |-> FALSE, sub |-> FALSE, mtvs |-> <<>>]

\* _collideWith that keeps the touching flags of the calls before
collideWithOldFlags(S, type, a, others, cb) ==
  IF S[a].removed THEN Started(S)
  ELSE collideLoop(Started(S), type, a, others, cb, 1)

collideWith(S, type, a, others, cb) ==
  IF S[a].removed THEN Started([S EXCEPT ![a].touching = NoTouching])
  ELSE collideLoop(Started([S EXCEPT ![a].touching = NoTouching]), type, a, others, cb, 1)

-----------------------------------------------------------------------------
(* Groups and the spatial index *)

\* Group.contains, Group.remove
contains(members, s) == \E i \in DOMAIN members : members[i] = s

RECURSIVE Without(_, _, _)
Without(members, s, i) ==
  IF i > Len(members) THEN <<>>
  ELSE (IF members[i] = s THEN <<>> ELSE <<members[i]>>) \o Without(members, s, i + 1)

\* new Quadtree(bounds, 4) with active = false: a root node that is split
\* only when it holds more than max_objects objects; up to there every
\* object is in the root's list and retrieve returns that list.
MaxObjects == 4
EmptyQuadTree == [active |-> FALSE, objects |-> <<>>]

useQuadTree(qt, use) == [qt EXCEPT !.active = use]
insert(qt, s) == IF contains(qt.objects, s) THEN qt ELSE [qt EXCEPT !.objects = Append(@, s)]
removeObject(qt, s) == [qt EXCEPT !.objects = Without(@, s, 1)]
retrieve(qt) == qt.objects

RECURSIVE Within(_, _, _)
Within(found, members, i) ==
  IF i > Len(found) THEN <<>>
  ELSE (IF contains(members, found[i]) THEN <<found[i]>> ELSE <<>>)
       \o Within(found, members, i + 1)

retrieveFromGroup(qt, members) == Within(retrieve(qt), members, 1)

\* the candidates of _collideWith for a group target: what the active index
\* retrieves, every member when that is nothing or the index is inactive
OrEveryMember(found, members) == IF Len(found) = 0 THEN members ELSE found

Candidates(qt, members) ==
  IF qt.active THEN OrEveryMember(retrieveFromGroup(qt, members), members) ELSE members

-----------------------------------------------------------------------------
(* The state machine *)

VARIABLES
  spr,      \* the sprites: sprite -> sprite record
  calls,    \* the callback invocations <<self, other>> of the last policy call
  last,     \* the last operation, its outcome and the sprites before it
  budget,   \* how many more operations of each kind are explored
  group,    \* the members of the one Group, in the order they were added
  quadTree, \* the spatial index
  shapeA, shapeB, mtv, stage   \* two free-standing shapes and collide's result

vars == <<spr, calls, last, budget, group, quadTree, shapeA, shapeB, mtv, stage>>
shapeVars == <<shapeA, shapeB, mtv, stage>>
spriteVars == <<spr, calls, last, budget, group, quadTree>>

MaxSteps == 2
MaxSetups == 2

Methods == PolicyTypes \cup {"isTouching"}
\* this.isTouching = this.overlap
TypeOf(method) == IF method = "isTouching" THEN "overlap" ELSE method

NoOp == [op |-> "none", method |-> "none", caller |-> 0, target |-> 0,
         many |-> FALSE, others |-> <<>>, args |-> <<>>,
         result |-> FALSE, threw |-> FALSE, sub |-> FALSE, mtvs |-> <<>>]

\* The scenes: sprite 1 at the origin with a velocity along x, sprite 2 at
\* rest on the x axis. <<0, 1>>: the two overlap at rest. <<100, 50>>: sprite 1
\* crosses sprite 2 in one update. <<400, 50>>: the same, four times as fast.
Scenes == {<<0, 1>>, <<100, 50>>, <<400, 50>>}

\* What the sketch did to the sprites after createSprite(x, y, 2, 2):
\* nothing, a setCollider call, or an animation whose image is not loaded
\* yet (sprite 2)
Setups == {"none", "rectangle", "circle", "loading"}

Created(pos, vel, imm, cfg) ==
  LET sp == NewSprite(pos, vel, Q(2), Q(2), imm, "none")
  IN CASE cfg = "rectangle" -> setCollider(sp, "rectangle", VZero, Undef, Undef)
       [] cfg = "circle" -> setCollider(sp, "circle", VZero, Num(Q(1)), Undef)
       [] OTHER -> sp

FullBudget == [steps |-> MaxSteps, setups |-> MaxSetups]

InitSprites ==
  /\ \E sc \in Scenes, i1, i2 \in BOOLEAN, cfg \in Setups :
       spr = [s \in {1, 2} |->
                IF s = 1
                THEN Created(VZero, VecI(sc[1], 0), i1, cfg)
                ELSE [Created(VecI(sc[2], 0), VZero, i2, cfg) EXCEPT
                        !.animation = IF cfg = "loading" THEN "loading" ELSE "none"]]
  /\ calls = <<>>
  /\ last = [NoOp EXCEPT !.op = "init"] @@ [pre |-> spr]
  /\ budget = FullBudget
  /\ group = <<1, 2>>
  /\ quadTree = EmptyQuadTree

IdleShapes ==
  /\ shapeA = PointCollider(VZero, VZero)
  /\ shapeB = PointCollider(VZero, VZero)
  /\ mtv = VZero
  /\ stage = "idle"

Init == InitSprites /\ IdleShapes

Did(op) == [NoOp EXCEPT !.op = op] @@ [pre |-> spr]
Step == budget.steps > 0 /\ budget' = [budget EXCEPT !.steps = @ - 1]
Setup == budget.setups > 0 /\ budget' = [budget EXCEPT !.setups = @ - 1]

\* updateSprites(): every sprite of allSprites is updated
Update ==
  /\ Step
  /\ spr' = [s \in DOMAIN spr |-> SpriteUpdate(spr[s])]
  /\ last' = Did("update")
  /\ UNCHANGED <<calls, group, quadTree, shapeVars>>

\* sprite.remove(): out of the index and out of every group
Remove(s) ==
  /\ Step
  /\ ~spr[s].removed
  /\ spr' = [spr EXCEPT ![s].removed = TRUE]
  /\ quadTree' = removeObject(quadTree, s)
  /\ group' = Without(group, s, 1)
  /\ last' = [Did("remove") EXCEPT !.caller = s]
  /\ UNCHANGED <<calls, shapeVars>>

\* the image of the sprite's animation finishes loading
AnimationLoaded(s) ==
  /\ spr[s].animation = "loading"
  /\ spr' = [spr EXCEPT ![s].animation = "loaded"]
  /\ last' = [Did("loaded") EXCEPT !.caller = s]
  /\ UNCHANGED <<calls, budget, group, quadTree, shapeVars>>

\* a policy call of sprite a with the candidates others
Call(method, a, target, many, others, cb) ==
  /\ Step
  /\ \E r \in {collideWith(spr, TypeOf(method), a, others, cb)} :
        /\ spr' = r.S
        /\ calls' = r.log
        /\ last' = [op |-> "policy", method |-> method, caller |-> a,
                    target |-> target, many |-> many, others |-> others,
                    args |-> <<>>,
                    result |-> r.result, threw |-> r.threw, sub |-> r.sub,
                    mtvs |-> r.mtvs, pre |-> spr]
  /\ UNCHANGED <<group, quadTree, shapeVars>>

\* a.overlap(t, cb), a.isTouching(t, cb), a.displace(t, cb), a.collide(t, cb),
\* a.bounce(t, cb), a.bounceOff(t, cb) with a sprite t as the target
Policy(method, a, t, cb) == Call(method, a, t, FALSE, <<t>>, cb)

\* the same calls with the group as the target
GroupPolicy(method, a, cb) == Call(method, a, 0, TRUE, Candidates(quadTree, group), cb)

\* caller and target: two different sprites, or one sprite and itself
Pairs == {<<1, 2>>, <<2, 1>>, <<1, 1>>}

Next ==
  \/ Update
  \/ \E s \in DOMAIN spr : Remove(s)
  \/ \E s \in DOMAIN spr : AnimationLoaded(s)
  \/ \E m \in Methods, p \in Pairs : Policy(m, p[1], p[2], TRUE)
  \/ \E m \in Methods : GroupPolicy(m, 1, TRUE)

Spec == Init /\ [][Next]_vars

-----------------------------------------------------------------------------
(* setCollider calls *)

\* sprite.setCollider(type, ...) with n arguments, w and h being the fourth
\* and the fifth
SetCollider(s, type, n, w, h) ==
  /\ Setup
  /\ IF setColliderThrows(type, n)
     THEN /\ spr' = spr
          /\ last' = [Did("setCollider") EXCEPT !.caller = s, !.method = type,
                                                  !.args = <<n, w, h>>, !.threw = TRUE]
     ELSE /\ spr' = [spr EXCEPT ![s] = setCollider(@, type, VZero, w, h)]
          /\ last' = [Did("setCollider") EXCEPT !.caller = s, !.method = type,
                                                  !.args = <<n, w, h>>]
  /\ UNCHANGED <<calls, group, quadTree, shapeVars>>

\* well-formed calls, an unknown type, a wrong number of arguments, and
\* sizes that are strings
ColliderArgs ==
  { <<"circle", 4, Num(Q(3)), Undef>>,
    <<"rectangle", 1, Undef, Undef>>,
    <<"aabb", 5, Num(Q(4)), Num(Q(6))>>,
    <<"rectangle", 5, Num(Q(4)), Num(Q(6))>>,
    <<"triangle", 1, Undef, Undef>>,
    <<"circle", 2, Undef, Undef>>,
    <<"circle", 4, Str, Undef>>,
    <<"aabb", 5, Str, Num(Q(6))>> }

NextCollider ==
  \E s \in DOMAIN spr, a \in ColliderArgs : SetCollider(s, a[1], a[2], a[3], a[4])

SpecCollider == Init /\ [][NextCollider]_vars

-----------------------------------------------------------------------------
(* One sprite against a group of two *)

\* the x coordinates of sprites 2 and 3; sprite 1 is at the origin and
\* every sprite is 2 x 2
GroupScenes == {<<1, 50>>, <<1, -2>>, <<50, 60>>}
Groups == {<<3, 2>>, <<1, 2, 3>>}

InitGroup ==
  /\ \E sc \in GroupScenes, cfg \in {"rectangle", "circle"} :
       spr = [s \in {1, 2, 3} |->
                IF s = 1 THEN Created(VZero, VZero, FALSE, cfg)
                ELSE Created(VecI(sc[s - 1], 0), VZero, FALSE, cfg)]
  /\ calls = <<>>
  /\ last = [NoOp EXCEPT !.op = "init"] @@ [pre |-> spr]
  /\ budget = FullBudget
  /\ group \in Groups
  /\ quadTree = EmptyQuadTree
  /\ IdleShapes

\* the sketch's setup() comes before the first step of the play
InSetup == budget.steps = MaxSteps /\ Setup

\* useQuadTree(use)
UseQuadTree(use) ==
  /\ InSetup
  /\ quadTree' = useQuadTree(quadTree, use)
  /\ last' = Did("useQuadTree")
  /\ UNCHANGED <<spr, calls, group, shapeVars>>

\* quadTree.insert(sprite)
QuadTreeInsert(s) ==
  /\ InSetup
  /\ Len(quadTree.objects) < MaxObjects
  /\ HasShape(spr[s].collider)
  /\ quadTree' = insert(quadTree, s)
  /\ last' = [Did("insert") EXCEPT !.caller = s]
  /\ UNCHANGED <<spr, calls, group, shapeVars>>

NextGroup ==
  \/ Update
  \/ \E s \in DOMAIN spr : Remove(s)
  \/ \E use \in BOOLEAN : UseQuadTree(use)
  \/ \E s \in DOMAIN spr : QuadTreeInsert(s)
  \/ \E m \in Methods : GroupPolicy(m, 1, TRUE)

SpecGroup == InitGroup /\ [][NextGroup]_vars

-----------------------------------------------------------------------------
(* collide and overlap on two free-standing shapes *)

MaxCoord == 5
Coords == (0 - MaxCoord)..MaxCoord
Radii == {1, 2, 3, 6}
BoxSizes == {<<2, 2>>, <<4, 2>>}

\* circles and axis-aligned boxes centred at c
ShapesAt(c) ==
  {CircleCollider(c, VZero, Q(r), FALSE) : r \in Radii}
    \cup {AABBCollider(c, VZero, Q(b[1]), Q(b[2]), FALSE) : b \in BoxSizes}

InitShapes ==
  /\ shapeA \in ShapesAt(VZero)
  /\ \E x, y \in Coords : shapeB \in ShapesAt(VecI(x, y))
  /\ mtv = VZero
  /\ stage = "input"
  /\ spr = <<>>
  /\ calls = <<>>
  /\ last = [NoOp EXCEPT !.op = "init"] @@ [pre |-> <<>>]
  /\ budget = FullBudget
  /\ group = <<>>
  /\ quadTree = EmptyQuadTree

\* mtv = shapeA.collide(shapeB), for the pairs whose displacement is a
\* rational vector
Collide ==
  /\ stage = "input"
  /\ RationalMTV(shapeA, shapeB)
  /\ mtv' = collide(shapeA, shapeB)
  /\ stage' = "collided"
  /\ UNCHANGED <<shapeA, shapeB, spriteVars>>

\* shapeA is translated by the displacement
Translate ==
  /\ stage = "collided"
  /\ shapeA' = [shapeA EXCEPT !.center = VAdd(@, mtv)]
  /\ stage' = "translated"
  /\ UNCHANGED <<shapeB, mtv, spriteVars>>

NextShapes == Collide \/ Translate

SpecShapes == InitShapes /\ [][NextShapes]_vars


-----------------------------------------------------------------------------
(* Two movable sprites whose velocities the sketch assigned directly *)

\* <<position of sprite 2, velocity of sprite 1>>: sprite 1 is at the origin
\* and moves along the line of the two centres, toward sprite 2
MotionScenes ==
  { <<VecI(1, 0), VecI(2, 0)>>,
    <<VecI(0, -1), VecI(0, -2)>>,
    <<Vec(Frac(3, 5), Frac(4, 5)), VecI(3, 4)>> }

\* <<mass of sprite 1, mass of sprite 2>>
Masses == {<<1, 1>>, <<2, 2>>, <<1, 2>>}

\* sprite 2 is at rest or comes the other way; its restitution is 1 or 1/2
InitMotion ==
  /\ \E sc \in MotionScenes, cfg \in {"none", "rectangle", "circle"}, m \in Masses,
        back \in {0, -1}, e \in {QOne, Frac(1, 2)} :
       spr = [s \in {1, 2} |->
                IF s = 1
                THEN [Created(VZero, sc[2], FALSE, cfg) EXCEPT !.mass = Q(m[1])]
                ELSE [Created(sc[1], VMult(sc[2], Q(back)), FALSE, cfg) EXCEPT
                        !.mass = Q(m[2]), !.restitution = e]]
  /\ calls = <<>>
  /\ last = [NoOp EXCEPT !.op = "init"] @@ [pre |-> spr]
  /\ budget = FullBudget
  /\ group = <<1, 2>>
  /\ quadTree = EmptyQuadTree
  /\ IdleShapes

\* Math.sqrt is taken of the speed of a moving sprite (its swept collider)
\* and of the relative speed of two sprites (the timestep): the model follows
\* the runs in which these are rational
RationalSpeed(v) == IsSquareQ(VMagSq(v))

MotionUpdate ==
  /\ \A s \in DOMAIN spr : RationalSpeed(spr[s].velocity)
  /\ Update

\* and so is the distance of the centres of two circles, taken by collide
\* at the positions and at every sample between the previous positions and
\* the positions: the four points are on one line, of a rational direction
Cross(u, v) == QSub(QMul(u.x, v.y), QMul(u.y, v.x))

OnOneLine(d1, d2, d3, d4) ==
  /\ Cross(d1, d2) = QZero /\ Cross(d1, d3) = QZero /\ Cross(d1, d4) = QZero
  /\ Cross(d2, d3) = QZero /\ Cross(d2, d4) = QZero /\ Cross(d3, d4) = QZero
  /\ RationalSpeed(d1) /\ RationalSpeed(d2) /\ RationalSpeed(d3) /\ RationalSpeed(d4)

Aligned(spA, spT) ==
  OnOneLine(VSub(spA.position, spT.position),
            VSub(spA.previousPosition, spT.previousPosition),
            VSub(spA.position, spA.previousPosition),
            VSub(spT.position, spT.previousPosition))

IsCircle(c) == HasShape(c) /\ c.kind = "circle"

MotionPolicy(method, a, t) ==
  /\ RationalSpeed(VSub(spr[a].velocity, spr[t].velocity))
  /\ IsCircle(spr[a].collider) \/ IsCircle(spr[t].collider) => Aligned(spr[a], spr[t])
  /\ Policy(method, a, t, TRUE)

NextMotion ==
  \/ MotionUpdate
  \/ \E m \in Methods, p \in {<<1, 2>>, <<2, 1>>} : MotionPolicy(m, p[1], p[2])

SpecMotion == InitMotion /\ [][NextMotion]_vars

-----------------------------------------------------------------------------
(* The quadtree with its nodes *)

\* A tree is a function from the paths of its nodes to the nodes: <<>> is
\* the root, Append(p, i) is nodes[i] of the node at p, and the level of a
\* node is the length of its path. A node has its bounds and its objects.
MaxLevels == 4

RootBounds == [x |-> QZero, y |-> QZero, width |-> QZero, height |-> QZero]
TreeNode(bounds) == [bounds |-> bounds, objects |-> <<>>]
NewTree == [p \in {<<>>} |-> TreeNode(RootBounds)]

\* typeof this.nodes[0] !== 'undefined', this.nodes.length
hasNodes(T, p) == Append(p, 0) \in DOMAIN T

\* Math.round
QRound(q) == Q((2 * q[1] + q[2]) \div (2 * q[2]))

\* the bounds of nodes[i]: 0 top right, 1 top left, 2 bottom left,
\* 3 bottom right
ChildBounds(b, i) ==
  [x |-> IF i \in {0, 3} THEN QAdd(QRound(b.x), QRound(Half(b.width))) ELSE QRound(b.x),
   y |-> IF i \in {2, 3} THEN QAdd(QRound(b.y), QRound(Half(b.height))) ELSE QRound(b.y),
   width |-> QRound(Half(b.width)),
   height |-> QRound(Half(b.height))]

split(T, p) ==
  [q \in DOMAIN T \cup {Append(p, i) : i \in 0..3} |->
     IF q \in DOMAIN T THEN T[q] ELSE TreeNode(ChildBounds(T[p].bounds, q[Len(q)]))]

\* CollisionShape.getBoundingBox
getBoundingBox(c) ==
  [top |-> QSub(c.center.y, getRadiusOnAxis(c, Y_AXIS)),
   bottom |-> QAdd(c.center.y, getRadiusOnAxis(c, Y_AXIS)),
   left |-> QSub(c.center.x, getRadiusOnAxis(c, X_AXIS)),
   right |-> QAdd(c.center.x, getRadiusOnAxis(c, X_AXIS))]

\* the quadrant of getIndex for a box and the two midpoints
UpperOrLower(box, hm, upper, lower) ==
  IF QLt(box.top, hm) /\ QLt(box.bottom, hm) THEN upper
  ELSE IF QLt(hm, box.top) THEN lower
  ELSE -1

Quadrant(box, vm, hm) ==
  IF QLt(box.left, vm) /\ QLt(box.right, vm) THEN UpperOrLower(box, hm, 1, 2)
  ELSE IF QLt(vm, box.left) THEN UpperOrLower(box, hm, 0, 3)
  ELSE -1

\* Quadtree.getIndex of the sprite sp in a node with bounds b
getIndex(b, sp) ==
  IF ~HasShape(sp.collider) THEN -1
  ELSE Quadrant(getBoundingBox(sp.collider),
                QAdd(b.x, Half(b.width)), QAdd(b.y, Half(b.height)))

Pushed(T, p, obj) == [T EXCEPT ![p].objects = Append(@, obj)]
Spliced(T, p, i) ==
  [T EXCEPT ![p].objects = SubSeq(@, 1, i - 1) \o SubSeq(@, i + 1, Len(@))]

\* Quadtree.insert(obj) on the node at p; S are the sprites
RECURSIVE TreeInsert(_, _, _, _)
RECURSIVE Distribute(_, _, _, _)

DistributeOne(T, S, p, i, index) ==
  IF index # -1
  THEN Distribute(TreeInsert(Spliced(T, p, i), S, Append(p, index), T[p].objects[i]),
                  S, p, i)
  ELSE Distribute(T, S, p, i + 1)

\* while (i < this.objects.length): the objects that fit a subnode go there
Distribute(T, S, p, i) ==
  IF i > Len(T[p].objects) THEN T
  ELSE DistributeOne(T, S, p, i, getIndex(T[p].bounds, S[T[p].objects[i]]))

AfterPush(T, S, p) ==
  IF Len(T[p].objects) > MaxObjects /\ Len(p) < MaxLevels
  THEN Distribute(IF hasNodes(T, p) THEN T ELSE split(T, p), S, p, 1)
  ELSE T

InsertHere(T, S, p, obj, index) ==
  IF hasNodes(T, p) /\ index # -1 THEN TreeInsert(T, S, Append(p, index), obj)
  ELSE AfterPush(Pushed(T, p, obj), S, p)

TreeInsert(T, S, p, obj) ==
  IF contains(T[p].objects, obj) THEN T
  ELSE InsertHere(T, S, p, obj, getIndex(T[p].bounds, S[obj]))

\* Quadtree.retrieve(sp) on the node at p
RECURSIVE TreeRetrieve(_, _, _)
RetrieveBelow(T, p, sp, index) ==
  IF index # -1 THEN TreeRetrieve(T, Append(p, index), sp)
  ELSE TreeRetrieve(T, Append(p, 0), sp) \o TreeRetrieve(T, Append(p, 1), sp)
       \o TreeRetrieve(T, Append(p, 2), sp) \o TreeRetrieve(T, Append(p, 3), sp)

\* retrieve that looks into no subnode for a box that fits none
RECURSIVE TreeRetrieveFitting(_, _, _)
FittingBelow(T, p, sp, index) ==
  IF index # -1 THEN TreeRetrieveFitting(T, Append(p, index), sp) ELSE <<>>

TreeRetrieveFitting(T, p, sp) ==
  IF hasNodes(T, p)
  THEN T[p].objects \o FittingBelow(T, p, sp, getIndex(T[p].bounds, sp))
  ELSE T[p].objects

TreeRetrieve(T, p, sp) ==
  IF hasNodes(T, p)
  THEN T[p].objects \o RetrieveBelow(T, p, sp, getIndex(T[p].bounds, sp))
  ELSE T[p].objects

\* Quadtree.getAll on the node at p
RECURSIVE getAll(_, _)
getAll(T, p) ==
  IF hasNodes(T, p)
  THEN T[p].objects \o getAll(T, Append(p, 0)) \o getAll(T, Append(p, 1))
       \o getAll(T, Append(p, 2)) \o getAll(T, Append(p, 3))
  ELSE T[p].objects

\* Quadtree.getObjectNode(sp) on the node at p: the path of the node
RECURSIVE getObjectNode(_, _, _)
Deeper(T, p, sp, index) ==
  IF index = -1 THEN p ELSE getObjectNode(T, Append(p, index), sp)

getObjectNode(T, p, sp) ==
  IF ~hasNodes(T, p) THEN p ELSE Deeper(T, p, sp, getIndex(T[p].bounds, sp))

\* node.objects.indexOf(obj), for an obj that is in the list
IndexOf(objects, obj) ==
  CHOOSE i \in DOMAIN objects :
    objects[i] = obj /\ \A j \in 1..(i - 1) : objects[j] # obj

\* Quadtree.removeObject(obj)
RemovedFrom(T, p, obj) ==
  IF ~contains(T[p].objects, obj) THEN T
  ELSE Spliced(T, p, IndexOf(T[p].objects, obj))

TreeRemoveObject(T, S, obj) == RemovedFrom(T, getObjectNode(T, <<>>, S[obj]), obj)

\* Quadtree.clear
clear(T) == [p \in {<<>>} |-> [T[<<>>] EXCEPT !.objects = <<>>]]

RECURSIVE InsertAll(_, _, _, _)
InsertAll(T, S, objects, i) ==
  IF i > Len(objects) THEN T
  ELSE InsertAll(TreeInsert(T, S, <<>>, objects[i]), S, objects, i + 1)

\* cleanup that re-inserts the objects of the root's own list only
cleanupOwnObjects(T, S) == InsertAll(clear(T), S, T[<<>>].objects, 1)

\* Quadtree.cleanup
cleanup(T, S) == InsertAll(clear(T), S, getAll(T, <<>>), 1)

\* Quadtree.updateBounds: the smallest x and y among the positions of the
\* objects, and as width and height the largest x and y
Grown(b, pos) ==
  [x |-> QMin(pos.x, b.x), y |-> QMin(pos.y, b.y),
   width |-> QMax(pos.x, b.width), height |-> QMax(pos.y, b.height)]

RECURSIVE BoundsOf(_, _, _, _)
BoundsOf(S, objects, i, b) ==
  IF i > Len(objects) THEN b
  ELSE BoundsOf(S, objects, i + 1, Grown(b, S[objects[i]].position))

updateBounds(T, S) ==
  [T EXCEPT ![<<>>].bounds =
     BoundsOf(S, getAll(T, <<>>), 1,
              [x |-> Q(10000), y |-> Q(10000), width |-> Q(-10000), height |-> Q(-10000)])]

\* updateTree, registered to run after draw
updateTree(qt, S) ==
  IF qt.active THEN [qt EXCEPT !.nodes = cleanup(updateBounds(@, S), S)] ELSE qt

-----------------------------------------------------------------------------
(* Five sprites and the quadtree *)

\* where the five sprites of 2 x 2 are created: one in each quadrant of the
\* root, and one across the horizontal midline
TreePlaces == <<VecI(-2, -2), VecI(2, -2), VecI(-2, 2), VecI(2, 2), VecI(-2, -1)>>

FiveSprites == [s \in DOMAIN TreePlaces |-> Created(TreePlaces[s], VZero, FALSE, "rectangle")]

\* the sprites 1..n in the order of their creation
FirstSprites(n) == [s \in 1..n |-> s]

\* the sketch's setup created the sprites, enabled the index and inserted
\* the first four or all five of them
InitTree ==
  /\ spr = FiveSprites
  /\ \E n \in {4, 5} :
       quadTree = [active |-> TRUE,
                   nodes |-> InsertAll(NewTree, FiveSprites, FirstSprites(n), 1)]
  /\ calls = <<>>
  /\ last = [NoOp EXCEPT !.op = "init"] @@ [pre |-> spr]
  /\ budget = FullBudget
  /\ group = FirstSprites(5)
  /\ IdleShapes

\* quadTree.insert(s)
Insert(s) ==
  /\ Step
  /\ quadTree' = [quadTree EXCEPT !.nodes = TreeInsert(@, spr, <<>>, s)]
  /\ last' = [Did("insert") EXCEPT !.caller = s]
  /\ UNCHANGED <<spr, calls, group, shapeVars>>

\* quadTree.removeObject(s)
RemoveObject(s) ==
  /\ Step
  /\ quadTree' = [quadTree EXCEPT !.nodes = TreeRemoveObject(@, spr, s)]
  /\ last' = [Did("removeObject") EXCEPT !.caller = s]
  /\ UNCHANGED <<spr, calls, group, shapeVars>>

\* quadTree.cleanup(); the objects of getAll() before it are recorded
Cleanup ==
  /\ Step
  /\ quadTree' = [quadTree EXCEPT !.nodes = cleanup(@, spr)]
  /\ last' = [Did("cleanup") EXCEPT !.others = getAll(quadTree.nodes, <<>>)]
  /\ UNCHANGED <<spr, calls, group, shapeVars>>

\* quadTree.updateBounds()
UpdateBounds ==
  /\ Step
  /\ quadTree' = [quadTree EXCEPT !.nodes = updateBounds(@, spr)]
  /\ last' = Did("updateBounds")
  /\ UNCHANGED <<spr, calls, group, shapeVars>>

\* sprite s moves to pos: the sketch assigns the position and the sprite is
\* updated (the moves have a budget of their own)
Move(s, pos) ==
  /\ Setup
  /\ pos # spr[s].position
  /\ spr' = [spr EXCEPT ![s] = SpriteUpdate([@ EXCEPT !.position = pos])]
  /\ last' = [Did("move") EXCEPT !.caller = s]
  /\ UNCHANGED <<calls, group, quadTree, shapeVars>>

\* quadTree.retrieve(s); what it returned is recorded
Retrieve(s) ==
  /\ Step
  /\ last' = [Did("retrieve") EXCEPT !.caller = s,
                !.others = TreeRetrieve(quadTree.nodes, <<>>, spr[s])]
  /\ UNCHANGED <<spr, calls, group, quadTree, shapeVars>>

\* the places a sprite moves to: the upper left quadrant, the lower right
\* one, and across the midline
Destinations == {1, 4, 5}

NextTree ==
  \/ \E s \in DOMAIN spr : Insert(s)
  \/ \E s \in DOMAIN spr : RemoveObject(s)
  \/ Cleanup
  \/ UpdateBounds
  \/ \E s \in DOMAIN spr, i \in Destinations : Move(s, TreePlaces[i])
  \/ \E s \in DOMAIN spr : Retrieve(s)

SpecTree == InitTree /\ [][NextTree]_vars

-----------------------------------------------------------------------------
(* The frames of a sketch that uses the quadtree *)

\* _collideWith: the candidates of a group target, from the tree
TreeCandidates(qt, S, a, members) ==
  IF qt.active
  THEN OrEveryMember(Within(TreeRetrieve(qt.nodes, <<>>, S[a]), members, 1), members)
  ELSE members

\* the velocity of sprite 3: at rest, or toward sprite 4, or up across the
\* midline
FrameVelocities == {VZero, VecI(4, 0), VecI(0, -3)}

\* setup(): the five sprites, all in the enabled index; a frame is the
\* 'pre' methods, then draw(), then the 'post' methods
InitFrame ==
  /\ \E v \in FrameVelocities :
       spr = [FiveSprites EXCEPT ![3].velocity = v]
  /\ quadTree = [active |-> TRUE,
                 nodes |-> InsertAll(NewTree, FiveSprites, FirstSprites(5), 1)]
  /\ calls = <<>>
  /\ last = [NoOp EXCEPT !.op = "init"] @@ [pre |-> spr]
  /\ budget = FullBudget
  /\ group = FirstSprites(5)
  /\ shapeA = PointCollider(VZero, VZero)
  /\ shapeB = PointCollider(VZero, VZero)
  /\ mtv = VZero
  /\ stage = "pre"

\* 'pre': updateSprites()
PreDraw ==
  /\ stage = "pre"
  /\ Setup
  /\ spr' = [s \in DOMAIN spr |-> SpriteUpdate(spr[s])]
  /\ stage' = "draw"
  /\ last' = Did("update")
  /\ UNCHANGED <<calls, group, quadTree, shapeA, shapeB, mtv>>

\* draw(): a call of sprite a with the group as the target
DrawQuery(method, a) ==
  /\ stage = "draw"
  /\ Call(method, a, 0, TRUE, TreeCandidates(quadTree, spr, a, group), TRUE)

\* 'post': updateTree()
PostDraw ==
  /\ stage = "draw"
  /\ quadTree' = updateTree(quadTree, spr)
  /\ stage' = "pre"
  /\ last' = Did("updateTree")
  /\ UNCHANGED <<spr, calls, budget, group, shapeA, shapeB, mtv>>

NextFrame ==
  \/ PreDraw
  \/ \E m \in Methods, a \in {1, 4} : DrawQuery(m, a)
  \/ PostDraw

SpecFrame == InitFrame /\ [][NextFrame]_vars
-----------------------------------------------------------------------------
(* Properties of the policy calls (specification Spec) *)

SamePlace(s) == spr[s].position = last.pre[s].position
SameMotion(s) == spr[s].velocity = last.pre[s].velocity
IsPolicy == last.op = "policy"
IsPairwise == IsPolicy /\ ~last.many

\* C1: no policy call, pairwise or against the group, moves an immovable
\* sprite. In particular displace leaves an immovable target where it was,
\* and collide, bounce and bounceOff leave an immovable caller where it was,
\* also when the sub-stepped narrow phase found the collision at an
\* interpolated position.
ImmovableStays ==
  IsPolicy => \A s \in DOMAIN spr : last.pre[s].immovable => SamePlace(s)

\* an immovable caller that moved 100 in the step collides with the target
\* it crossed, the collision being found by a sub-step, and is at its
\* final position after the call
ImmovableStaysWitness ==
  /\ IsPolicy /\ last.method = "collide" /\ last.caller = 1
  /\ last.sub /\ last.result
  /\ last.pre[1].immovable
  /\ last.pre[1].previousPosition = VZero
  /\ spr[1].position = VecI(100, 0)

\* C2: an overlap or isTouching call leaves the position and the velocity
\* of every sprite as they were before the call.
OverlapLeavesSpritesAlone ==
  IsPolicy /\ last.method \in {"overlap", "isTouching"}
    => \A s \in DOMAIN spr : SamePlace(s) /\ SameMotion(s)

\* an overlap call whose sub-steps found the collision leaves the caller,
\* which had moved to x = 100, at the interpolated x = 99/2
OverlapMovesCaller ==
  /\ IsPairwise /\ last.method = "overlap" /\ last.caller = 1 /\ last.target = 2
  /\ last.result /\ last.sub
  /\ last.pre[1].position = VecI(100, 0)
  /\ spr[1].position = Vec(Frac(99, 2), QZero)

\* the shape sprite s has, or gets by default at its first test, at pos
ShapeOf(S, s, pos) == ColliderAt(EnsureCollider(S, s)[s], pos)

\* sprite a went, in the last update, along x from one side of the resting
\* sprite t to the other, and their shapes overlap neither where a started
\* nor where it ended
Crossed(S, a, t) ==
  /\ a # t /\ ~S[a].removed /\ ~S[t].removed
  /\ S[a].animation # "loading" /\ S[t].animation # "loading"
  /\ VIsZero(S[t].velocity)
  /\ S[a].position = VAdd(S[a].previousPosition, S[a].velocity)
  /\ S[a].position.y = S[t].position.y
  /\ QLt(S[a].previousPosition.x, S[t].position.x)
  /\ QLt(S[t].position.x, S[a].position.x)
  /\ ~overlap(ShapeOf(S, a, S[a].previousPosition), ShapeOf(S, t, S[t].position))
  /\ ~overlap(ShapeOf(S, a, S[a].position), ShapeOf(S, t, S[t].position))

\* C3: a policy call made after a step in which the caller crossed the
\* resting target completely, overlapping it neither at the start nor at
\* the end of the step, returns true.
TunnelingIsReported ==
  IsPairwise /\ Crossed(last.pre, last.caller, last.target) => last.result

\* the sprites of the example, 2 x 2, from (0,0) to (100,0) across (50,0),
\* with the default colliders of their first test: the call returns false
TunnelingMissed ==
  /\ IsPairwise /\ Crossed(last.pre, last.caller, last.target)
  /\ last.caller = 1
  /\ last.pre[1].previousPosition = VZero
  /\ last.pre[1].position = VecI(100, 0)
  /\ last.pre[2].position = VecI(50, 0)
  /\ ~HasShape(last.pre[1].collider)
  /\ ~last.result

\* C5: an overlap or isTouching call never invokes the callback it is
\* given: only displace, collide, bounce and bounceOff invoke it.
OverlapNeverCallsBack ==
  IsPolicy /\ last.method \in {"overlap", "isTouching"} => calls = <<>>

\* isTouching with a callback, on two overlapping sprites, invokes it
IsTouchingCallsBack ==
  /\ IsPairwise /\ last.method = "isTouching" /\ last.caller = 1 /\ last.target = 2
  /\ last.result
  /\ calls = <<<<1, 2>>>>

\* C6: a pairwise test whose target is the caller itself, or whose target
\* or caller was removed, returns false, invokes no callback and changes no
\* position and no velocity.
Skipped ==
  \/ last.caller = last.target
  \/ last.pre[last.target].removed
  \/ last.pre[last.caller].removed

SkippedPairIsUntouched ==
  IsPairwise /\ Skipped
    => /\ ~last.result
       /\ calls = <<>>
       /\ \A s \in DOMAIN spr : SamePlace(s) /\ SameMotion(s)

\* collide on a removed target that the caller's shape overlaps
SkippedPairWitness ==
  /\ IsPairwise /\ last.method = "collide" /\ last.caller = 1 /\ last.target = 2
  /\ last.pre[2].removed /\ ~last.pre[1].removed
  /\ HasShape(last.pre[1].collider)
  /\ overlap(last.pre[1].collider, last.pre[2].collider)
  /\ ~last.result

\* C7: a pairwise test in which a sprite has no collider and cannot get the
\* default one, its animation still loading, returns false without an error
\* and changes no position and no velocity; and once the animation is
\* loaded the same test has the outcome it has on sprites without animation.
Tests == IsPairwise /\ ~Skipped
Unready(s) == ~HasShape(last.pre[s].collider) /\ last.pre[s].animation = "loading"
Ready(s) == ~HasShape(last.pre[s].collider) /\ last.pre[s].animation = "loaded"

Plain(S) == [s \in DOMAIN S |-> [S[s] EXCEPT !.animation = "none"]]

SameOutcome(r) ==
  /\ last.result = r.result
  /\ calls = r.log
  /\ last.mtvs = r.mtvs
  /\ \A s \in DOMAIN spr : spr[s].position = r.S[s].position
                           /\ spr[s].velocity = r.S[s].velocity
                           /\ HasShape(spr[s].collider)

NoColliderNoCollision ==
  /\ Tests /\ (Unready(last.caller) \/ Unready(last.target))
       => /\ ~last.result /\ ~last.threw /\ calls = <<>>
          /\ \A s \in DOMAIN spr : SamePlace(s) /\ SameMotion(s)
  /\ Tests /\ Ready(last.target)
       => SameOutcome(collideWith(Plain(last.pre), TypeOf(last.method),
                                  last.caller, last.others, TRUE))

\* the caller got its default collider in an earlier test, which the target's
\* loading animation made return false; the animation is loaded now and the
\* test finds the collision
NoColliderWitness ==
  /\ Tests /\ last.caller = 1 /\ last.target = 2
  /\ Ready(2)
  /\ HasShape(last.pre[1].collider)
  /\ last.result

-----------------------------------------------------------------------------
(* Properties of the one-to-many calls (specification SpecGroup) *)

\* the pairwise calls of the caller on each candidate, one after the other
Accumulated(acc, r) ==
  [S |-> r.S, results |-> Append(acc.results, r.result), log |-> acc.log \o r.log]

RECURSIVE OneByOne(_, _, _, _, _)
OneByOne(acc, type, a, others, i) ==
  IF i > Len(others) THEN acc
  ELSE OneByOne(Accumulated(acc, collideWith(acc.S, type, a, <<others[i]>>, TRUE)),
                type, a, others, i + 1)

Invocations(a, o) == Cardinality({j \in DOMAIN calls : calls[j] = <<a, o>>})

AsOneByOne(each) ==
  /\ last.result = (\E i \in DOMAIN each.results : each.results[i])
  /\ \A i \in DOMAIN last.others :
       Invocations(last.caller, last.others[i]) = IF each.results[i] THEN 1 ELSE 0
  /\ Len(calls) = Cardinality({i \in DOMAIN each.results : each.results[i]})

-----------------------------------------------------------------------------
(* Properties of setCollider (specification SpecCollider) *)

AllowedCounts(type) ==
  CASE type = "point" -> {1, 3}
    [] type = "circle" -> {1, 3, 4}
    [] type = "aabb" -> {1, 3, 5}
    [] type \in {"obb", "rectangle"} -> {1, 3, 5, 6}
    [] OTHER -> {}

WrongSize(a) == a.t \notin {"number", "undefined"}

BadCall ==
  /\ last.op = "setCollider"
  /\ \/ last.args[1] \notin AllowedCounts(last.method)
     \/ WrongSize(last.args[2])
     \/ WrongSize(last.args[3])

\* C8: setCollider with an unknown type, a number of arguments its type
\* does not allow, or a size that is not a number throws, and leaves the
\* collider the sprite had.
SetColliderRejectsBadArguments ==
  BadCall => last.threw /\ spr = last.pre

\* setCollider("circle", 0, 0, "3") on a 2 x 2 sprite does not throw and
\* installs a circle of radius 1, half the sprite's size
SetColliderSubstitutesDefaults ==
  /\ last.op = "setCollider" /\ last.method = "circle"
  /\ last.args = <<4, Str, Undef>>
  /\ ~last.threw
  /\ spr[last.caller].collider.kind = "circle"
  /\ spr[last.caller].collider.scaledRadius = QOne
  /\ last.pre[last.caller].collider.kind # "circle"

-----------------------------------------------------------------------------
(* Properties of collide and overlap (specification SpecShapes) *)

Delta == VSub(shapeA.center, shapeB.center)
SumOfRadii == QAdd(shapeA.scaledRadius, shapeB.scaledRadius)
BothCircles == shapeA.kind = "circle" /\ shapeB.kind = "circle"

\* C9: collide(a, b) is the zero vector exactly when overlap(a, b) is
\* false, and a translated by collide(a, b) does not overlap b.
TranslationSeparates ==
  /\ stage = "collided" => (VIsZero(mtv) <=> ~overlap(shapeA, shapeB))
  /\ stage = "translated" => ~overlap(shapeA, shapeB)

\* a circle and a box with the same centre, the circle moved out of the box
TranslationWitness ==
  /\ stage = "translated"
  /\ shapeA.kind = "circle" /\ shapeB.kind = "aabb"
  /\ shapeB.center = VZero
  /\ ~VIsZero(mtv)
  /\ shapeA.center = mtv

\* C10: two circles overlap exactly when the distance d of their centres
\* is less than r1 + r2; the displacement of collide then has the length
\* r1 + r2 - d, is parallel to the line through the centres and points from
\* the second circle's centre to the first's.
CirclesByDistance ==
  stage = "collided" /\ BothCircles
    => /\ overlap(shapeA, shapeB) <=> QLt(VMagSq(Delta), QMul(SumOfRadii, SumOfRadii))
       /\ overlap(shapeA, shapeB)
            => /\ IsSquareQ(VMagSq(Delta))
               /\ VMag(mtv) = QSub(SumOfRadii, VMag(Delta))
               /\ QMul(mtv.x, Delta.y) = QMul(mtv.y, Delta.x)
               /\ VIsZero(Delta) \/ QLt(QZero, VDot(mtv, Delta))

\* circles of radius 3 at (0,0) and (3,4): d = 5, displacement (-3/5, -4/5)
CirclesWitness ==
  /\ stage = "collided" /\ BothCircles
  /\ shapeA.scaledRadius = Q(3) /\ shapeB.scaledRadius = Q(3)
  /\ shapeB.center = VecI(3, 4)
  /\ mtv = Vec(Frac(-3, 5), Frac(-4, 5))


-----------------------------------------------------------------------------
(* Properties of bounce (specification SpecMotion) *)

\* the part of v along the collision normal d, and the part across it
Along(v, d) == VProject(v, d)
Across(v, d) == VSub(v, VProject(v, d))

\* the last call was a.bounce(t) between two different sprites of equal
\* mass and restitution 1, t at rest, and it found a collision
ElasticBounce ==
  /\ IsPairwise /\ last.method = "bounce" /\ last.result
  /\ last.caller # last.target
  /\ last.pre[last.caller].mass = last.pre[last.target].mass
  /\ last.pre[last.caller].restitution = QOne
  /\ last.pre[last.target].restitution = QOne
  /\ ~last.pre[last.caller].immovable /\ ~last.pre[last.target].immovable
  /\ VIsZero(last.pre[last.target].velocity)

\* C11: after a bounce between two movable sprites of equal mass and
\* restitution 1, the target at rest, the caller has no velocity along the
\* collision normal, the target has along the normal the velocity the caller
\* had along it, and the velocities across the normal are what they were.
BounceExchangesVelocities ==
  ElasticBounce =>
    LET d == last.mtvs[1]
        v == last.pre[last.caller].velocity
    IN /\ VIsZero(Along(spr[last.caller].velocity, d))
       /\ Along(spr[last.target].velocity, d) = Along(v, d)
       /\ Across(spr[last.caller].velocity, d) = Across(v, d)
       /\ VIsZero(Across(spr[last.target].velocity, d))

\* the caller went straight toward the target along the normal, with a
\* velocity that is not zero, stands still after the call, and the target
\* has the caller's velocity
BounceHeadOn ==
  /\ ElasticBounce
  /\ ~VIsZero(last.pre[last.caller].velocity)
  /\ isParallel(last.pre[last.caller].velocity, last.mtvs[1])
  /\ VDot(last.pre[last.caller].velocity, last.mtvs[1])[1] < 0
  /\ VIsZero(spr[last.caller].velocity)
  /\ spr[last.target].velocity = last.pre[last.caller].velocity

\* some displacement of the last call has an x (a y) of the given sign
SomeX(sign) == \E i \in DOMAIN last.mtvs : QSign(last.mtvs[i].x) = sign
SomeY(sign) == \E i \in DOMAIN last.mtvs : QSign(last.mtvs[i].y) = sign

\* C15: after a policy call the caller's touching flags tell of that call
\* alone: left iff a displacement of the call had x > 0, right iff one had
\* x < 0, top iff one had y > 0, bottom iff one had y < 0; none is set when
\* the call returned false, one at least when it returned true.
TouchingTellsOfTheCall ==
  IsPolicy =>
    /\ spr[last.caller].touching.left = SomeX(1)
    /\ spr[last.caller].touching.right = SomeX(-1)
    /\ spr[last.caller].touching.top = SomeY(1)
    /\ spr[last.caller].touching.bottom = SomeY(-1)
    /\ last.result = (spr[last.caller].touching # NoTouching)

\* a call that returned false on a caller that an earlier call had left
\* with a flag set
TouchingForgotten ==
  /\ IsPolicy /\ ~last.result
  /\ last.pre[last.caller].touching # NoTouching
  /\ spr[last.caller].touching = NoTouching

-----------------------------------------------------------------------------
(* Properties of the pairwise test (specifications Spec, SpecCollider) *)

\* C16: a displace call that found a collision with a target that is not
\* immovable changed the target's position by the whole displacement, away
\* from the caller, and nothing else: the caller's position and velocity
\* and the target's velocity are what they were before the call.
DisplaceMovesOnlyTarget ==
  /\ IsPairwise /\ last.method = "displace" /\ last.result
  /\ ~last.pre[last.target].immovable
  => /\ SamePlace(last.caller) /\ SameMotion(last.caller)
     /\ SameMotion(last.target)
     /\ spr[last.target].position =
          VSub(last.pre[last.target].position, last.mtvs[1])

\* a displace call whose sub-steps found the collision leaves the caller,
\* which had moved to x = 100, at the interpolated x = 99/2, and the target
\* beside it
DisplaceMovesCaller ==
  /\ IsPairwise /\ last.method = "displace" /\ last.caller = 1 /\ last.target = 2
  /\ last.result /\ last.sub
  /\ ~last.pre[1].immovable /\ ~last.pre[2].immovable
  /\ last.pre[1].position = VecI(100, 0)
  /\ spr[1].position = Vec(Frac(99, 2), QZero)
  /\ spr[2].position = VSub(last.pre[2].position, last.mtvs[1])

\* the last operation was a setCollider call of the given type that did
\* not throw
DidSetCollider(type) ==
  last.op = "setCollider" /\ last.method = type /\ ~last.threw

\* C17: setCollider('rectangle', ...) installs the collider that
\* setCollider('aabb', ...) installs with the same arguments, an axis-aligned
\* bounding box.
RectangleIsAABB ==
  DidSetCollider("rectangle") =>
    spr[last.caller].collider =
      createFromSprite(last.pre[last.caller], "aabb", VZero,
                       last.args[2], last.args[3])

\* setCollider('rectangle', 0, 0, 4, 6) installed an oriented bounding box
\* of 4 x 6 where setCollider('aabb', 0, 0, 4, 6) installs an axis-aligned one
RectangleIsOBB ==
  /\ DidSetCollider("rectangle")
  /\ last.args = <<5, Num(Q(4)), Num(Q(6))>>
  /\ spr[last.caller].collider.kind = "obb"
  /\ spr[last.caller].collider.width = Q(4)
  /\ createFromSprite(last.pre[last.caller], "aabb", VZero,
                      last.args[2], last.args[3]).kind = "aabb"

\* the sprites of the last call as the test found them: with the default
\* collider where there was none
Tested2 == EnsureCollider(EnsureCollider(last.pre, last.caller), last.target)

\* the last call tested two different sprites that both have a collider,
\* and the broad-phase shapes of the two did not overlap
BroadPhaseMiss ==
  /\ Tests /\ ~last.threw
  /\ HasShape(Tested2[last.caller].collider)
  /\ HasShape(Tested2[last.target].collider)
  /\ ~doSweptCollidersOverlap(Tested2[last.caller], Tested2[last.target]).threw
  /\ VIsZero(doSweptCollidersOverlap(Tested2[last.caller], Tested2[last.target]).d)

\* the exact test of the two colliders at the sprites' positions
ExactTest ==
  collide(ColliderAt(Tested2[last.caller], last.pre[last.caller].position),
          ColliderAt(Tested2[last.target], last.pre[last.target].position))

NoCollisionLeavesSprites ==
  IsPairwise /\ ~last.result /\ ~last.threw
    => \A s \in DOMAIN spr : SamePlace(s) /\ SameMotion(s)

\* the caller moved in the step, the broad-phase shapes overlap, the
\* timestep is below 1, every sample missed the target and so did the final
\* test: the caller is where the update had put it
SampledWithoutCollision ==
  /\ Tests /\ ~last.result /\ ~last.threw
  /\ HasShape(Tested2[last.caller].collider)
  /\ HasShape(Tested2[last.target].collider)
  /\ ~VIsZero(doSweptCollidersOverlap(Tested2[last.caller], Tested2[last.target]).d)
  /\ QLt(Timestep(Tested2[last.caller], Tested2[last.target]), QOne)
  /\ last.pre[last.caller].position # last.pre[last.caller].previousPosition
  /\ SamePlace(last.caller) /\ SamePlace(last.target)

-----------------------------------------------------------------------------
(* Properties of the quadtree (specifications SpecTree, SpecFrame) *)

Range(objects) == {objects[i] : i \in DOMAIN objects}

\* the objects stored in the tree, node after node
Stored == getAll(quadTree.nodes, <<>>)

\* C12: cleanup keeps the membership of the tree: the set of the objects of
\* getAll() right after cleanup() is the set of the objects of getAll()
\* right before it, whatever inserts, removals, updates of the bounds and
\* moves of the sprites came before.
CleanupKeepsMembership ==
  last.op = "cleanup" => Range(Stored) = Range(last.others)

\* a cleanup of a tree that has subnodes, after a stored sprite had moved
\* out of the quadrant of the node that holds it
CleanupAfterMove ==
  /\ last.op = "cleanup"
  /\ Cardinality(Range(last.others)) = 5
  /\ Range(Stored) = Range(last.others)
  /\ hasNodes(quadTree.nodes, <<>>)
  /\ \E s \in DOMAIN spr : spr[s].position # TreePlaces[s]

\* how many times the sprite s is stored in the tree
TimesStored(s) == Cardinality({i \in DOMAIN Stored : Stored[i] = s})

\* C14: after any sequence of insert, removeObject, cleanup and
\* updateBounds calls, the sprites moving between the calls, no sprite is
\* stored more than once in the tree.
StoredAtMostOnce == \A s \in DOMAIN spr : TimesStored(s) <= 1

\* a sprite that a subnode holds moved across the midline and was inserted
\* again: the root's list holds it now, and the subnode still does
StoredTwice ==
  /\ last.op = "insert"
  /\ spr[last.caller].position # TreePlaces[last.caller]
  /\ contains(quadTree.nodes[<<>>].objects, last.caller)
  /\ TimesStored(last.caller) = 2

\* the boxes of two colliders have a point in common
Intersect(a, b) ==
  /\ QLe(a.left, b.right) /\ QLe(b.left, a.right)
  /\ QLe(a.top, b.bottom) /\ QLe(b.top, a.bottom)

BoxOf(s) == getBoundingBox(spr[s].collider)

\* retrieve(e) returned every stored sprite whose box intersects the box of e
RetrievedAllNear ==
  \A s \in Range(Stored) : Intersect(BoxOf(s), BoxOf(last.caller)) => contains(last.others, s)

\* every stored sprite is in the list of the node that its box selects now
PlacementIsCurrent ==
  \A p \in DOMAIN quadTree.nodes : \A i \in DOMAIN quadTree.nodes[p].objects :
    getObjectNode(quadTree.nodes, <<>>, spr[quadTree.nodes[p].objects[i]]) = p

PlacementIsCurrentFor(S) ==
  \A p \in DOMAIN quadTree.nodes : \A i \in DOMAIN quadTree.nodes[p].objects :
    getObjectNode(quadTree.nodes, <<>>, S[quadTree.nodes[p].objects[i]]) = p

\* C18: in a frame, updateTree comes after the positions were updated and
\* before the calls against the group, so that at every such call every
\* stored sprite is in the node that its current position selects.
IndexIsCurrentAtQueries ==
  IsPolicy /\ last.many => PlacementIsCurrentFor(last.pre)

\* in the first frame sprite 3 moved onto sprite 4, the index still holds
\* it in the lower left node, and sprite 4's call against the group did not
\* test it and returned false
StaleIndexMissesCollision ==
  /\ IsPolicy /\ last.many /\ last.caller = 4
  /\ ~PlacementIsCurrentFor(last.pre)
  /\ overlap(last.pre[3].collider, last.pre[4].collider)
  /\ ~contains(last.others, 3)
  /\ ~last.result

-----------------------------------------------------------------------------
(* Sprite._findDisplacement on its own: how many sub-steps it samples *)

\* the colliders the sketch set: a point, a circle of radius 0 or 1, the
\* default box of the sprite's 2 x 2
StepColliders == {"point", "dot", "circle", "rectangle"}

WithCollider(sp, cfg) ==
  CASE cfg = "point" -> setCollider(sp, "point", VZero, Undef, Undef)
    [] cfg = "dot" -> setCollider(sp, "circle", VZero, Num(QZero), Undef)
    [] cfg = "circle" -> setCollider(sp, "circle", VZero, Num(QOne), Undef)
    [] OTHER -> setCollider(sp, "rectangle", VZero, Undef, Undef)

\* the velocity of sprite 1 along x, and where on the x axis sprite 2 is
StepSpeeds == {0, 1, 3, 100, 400}
StepPlaces == {1, 50, 51}

\* sprite 2 is at rest, or moves with sprite 1 (no relative velocity)
InitSteps ==
  /\ \E v \in StepSpeeds, p \in StepPlaces, c1, c2 \in StepColliders, with \in BOOLEAN :
       spr = [s \in {1, 2} |->
                IF s = 1
                THEN WithCollider(NewSprite(VZero, VecI(v, 0), Q(2), Q(2), FALSE, "none"), c1)
                ELSE WithCollider(NewSprite(VecI(p, 0), VecI(IF with THEN v ELSE 0, 0),
                                            Q(2), Q(2), FALSE, "none"), c2)]
  /\ calls = <<>>
  /\ last = [NoOp EXCEPT !.op = "init"] @@ [pre |-> spr, samples |-> 0]
  /\ budget = FullBudget
  /\ group = <<1, 2>>
  /\ quadTree = EmptyQuadTree
  /\ IdleShapes

StepsUpdate ==
  /\ Step
  /\ spr' = [s \in DOMAIN spr |-> SpriteUpdate(spr[s])]
  /\ last' = Did("update") @@ [samples |-> 0]
  /\ UNCHANGED <<calls, group, quadTree, shapeVars>>

\* a._findDisplacement(t): the sprites as it leaves them, the displacement
\* it returned, and how many sub-steps it sampled on the way
FoundDisplacement(a, t, f, n) ==
  /\ spr' = f.S
  /\ last' = [Did("findDisplacement") EXCEPT
                !.caller = a, !.target = t, !.threw = f.threw, !.sub = f.sub,
                !.result = ~VIsZero(f.d), !.mtvs = <<f.d>>] @@ [samples |-> n]

FindDisplacement(a, t) ==
  /\ Step
  /\ \E broad \in {doSweptCollidersOverlap(spr[a], spr[t])},
        ts \in {Timestep(spr[a], spr[t])} :
       FoundDisplacement(a, t, NarrowPhase(spr, a, t, broad, ts),
                         SubSteps(spr[a], spr[t], broad, ts))
  /\ UNCHANGED <<calls, group, quadTree, shapeVars>>

NextSteps ==
  \/ StepsUpdate
  \/ \E p \in {<<1, 2>>, <<2, 1>>} : FindDisplacement(p[1], p[2])

SpecSteps == InitSteps /\ [][NextSteps]_vars

-----------------------------------------------------------------------------
(* Sprite.remove() of sprites that the quadtree holds *)

\* setup(): five sprites in one group, the first four or all five inserted
\* in the enabled index
InitDestroy ==
  /\ spr = FiveSprites
  /\ \E n \in {4, 5} :
       quadTree = [active |-> TRUE,
                   nodes |-> InsertAll(NewTree, FiveSprites, FirstSprites(n), 1)]
  /\ calls = <<>>
  /\ last = [NoOp EXCEPT !.op = "init"] @@ [pre |-> spr]
  /\ budget = FullBudget
  /\ group = FirstSprites(5)
  /\ IdleShapes

\* s.remove(): the sprite is marked, taken out of the node that
\* getObjectNode finds for it, and out of the group
Destroy(s) ==
  /\ Step
  /\ ~spr[s].removed
  /\ spr' = [spr EXCEPT ![s].removed = TRUE]
  /\ quadTree' = [quadTree EXCEPT !.nodes = TreeRemoveObject(@, spr, s)]
  /\ group' = Without(group, s, 1)
  /\ last' = [Did("remove") EXCEPT !.caller = s]
  /\ UNCHANGED <<calls, shapeVars>>

\* the 'post' method updateTree()
Rebuild ==
  /\ Step
  /\ quadTree' = updateTree(quadTree, spr)
  /\ last' = Did("updateTree")
  /\ UNCHANGED <<spr, calls, group, shapeVars>>

NextDestroy ==
  \/ \E s \in DOMAIN spr, i \in Destinations : Move(s, TreePlaces[i])
  \/ \E s \in DOMAIN spr : Destroy(s)
  \/ Rebuild

SpecDestroy == InitDestroy /\ [][NextDestroy]_vars

-----------------------------------------------------------------------------
(* updateSprites() on sprites that have a life *)

\* the end of Sprite.update: if (this.life > 0) this.life--
Aged(sp) == [sp EXCEPT !.life = IF @ > 0 THEN @ - 1 ELSE @]

\* if (this.life === 0) this.remove(): out of the index and out of
\* allSprites. st carries the sprites, allSprites, the index and the log of
\* the update() calls.
Expired(st, s) ==
  IF st.S[s].life = 0
  THEN [st EXCEPT !.S[s].removed = TRUE,
                  !.qt = removeObject(@, s),
                  !.all = Without(@, s, 1)]
  ELSE st

\* allSprites.get(i).update()
updateAt(st, s) ==
  IF st.S[s].removed THEN [st EXCEPT !.log = Append(@, s)]
  ELSE Expired([st EXCEPT !.S[s] = Aged(SpriteUpdate(@)), !.log = Append(@, s)], s)

\* for (var i = 0; i < this.allSprites.size(); i++): the size is read again
\* in every round
RECURSIVE updateSprites(_, _)
updateSprites(st, i) ==
  IF i > Len(st.all) THEN st ELSE updateSprites(updateAt(st, st.all[i]), i + 1)

\* the lives of the three sprites: -1 is a sprite that does not expire
Lives == {-1, 1, 2}

\* three sprites in a row, the first moving; group is allSprites
InitLife ==
  /\ \E l \in [1..3 -> Lives] :
       spr = [s \in 1..3 |->
                Created(VecI(3 * s, 0), VecI(IF s = 1 THEN 1 ELSE 0, 0), FALSE, "rectangle")
                  @@ [life |-> l[s]]]
  /\ calls = <<>>
  /\ last = [NoOp EXCEPT !.op = "init"] @@ [pre |-> spr, all |-> <<1, 2, 3>>]
  /\ budget = FullBudget
  /\ group = <<1, 2, 3>>
  /\ quadTree = EmptyQuadTree
  /\ IdleShapes

\* the 'pre' method updateSprites(), sprite updating being enabled; the
\* update() calls it made are recorded
Updating(st) ==
  /\ spr' = st.S
  /\ group' = st.all
  /\ quadTree' = st.qt
  /\ last' = [Did("updateSprites") EXCEPT !.others = st.log] @@ [all |-> group]

UpdateSprites ==
  /\ Setup
  /\ Updating(updateSprites([S |-> spr, all |-> group, qt |-> quadTree, log |-> <<>>], 1))
  /\ UNCHANGED <<calls, shapeVars>>

\* sprite.life = n in draw()
SetLife(s, n) ==
  /\ Step
  /\ ~spr[s].removed
  /\ spr[s].life # n
  /\ spr' = [spr EXCEPT ![s].life = n]
  /\ last' = [Did("life") EXCEPT !.caller = s] @@ [all |-> group]
  /\ UNCHANGED <<calls, group, quadTree, shapeVars>>

\* sprite.remove() in draw()
RemoveInDraw(s) ==
  /\ Step
  /\ ~spr[s].removed
  /\ spr' = [spr EXCEPT ![s].removed = TRUE]
  /\ quadTree' = removeObject(quadTree, s)
  /\ group' = Without(group, s, 1)
  /\ last' = [Did("remove") EXCEPT !.caller = s] @@ [all |-> group]
  /\ UNCHANGED <<calls, shapeVars>>

NextLife ==
  \/ UpdateSprites
  \/ \E s \in DOMAIN spr, n \in Lives : SetLife(s, n)
  \/ \E s \in DOMAIN spr : RemoveInDraw(s)

SpecLife == InitLife /\ [][NextLife]_vars

-----------------------------------------------------------------------------
(* Groups and the groups of a sprite *)

\* group is the function from the groups to their members here: group 1 is
\* allSprites, group 2 a group of the sketch; a sprite's groups is the list
\* of the groups it was added to.

\* Group.add(s)
groupAdd(G, S, g, s) ==
  IF contains(G[g], s) THEN [G |-> G, S |-> S]
  ELSE [G |-> [G EXCEPT ![g] = Append(@, s)],
        S |-> [S EXCEPT ![s].groups = Append(@, g)]]

\* Group.remove(item): every occurrence of item is spliced out of the group,
\* and if there was one, the group out of item.groups
groupRemove(G, S, g, s) ==
  IF contains(G[g], s)
  THEN [G |-> [G EXCEPT ![g] = Without(@, s, 1)],
        S |-> [S EXCEPT ![s].groups = Without(@, g, 1)]]
  ELSE [G |-> G, S |-> S]

\* Group.clear(): array.length = 0
groupClear(G, g) == [G EXCEPT ![g] = <<>>]

\* createSprite three times: every sprite is in allSprites
InitMembers ==
  /\ spr = [s \in 1..3 |->
              Created(VecI(3 * s, 0), VZero, FALSE, "rectangle") @@ [groups |-> <<1>>]]
  /\ group = <<(<<1, 2, 3>>), <<>>>>
  /\ calls = <<>>
  /\ last = [NoOp EXCEPT !.op = "init"] @@ [pre |-> spr]
  /\ budget = FullBudget
  /\ quadTree = EmptyQuadTree
  /\ shapeA = PointCollider(VZero, VZero)
  /\ shapeB = PointCollider(VZero, VZero)
  /\ mtv = VZero
  /\ stage = "idle"

Changed(r, op, g, s) ==
  /\ group' = r.G
  /\ spr' = r.S
  /\ last' = [Did(op) EXCEPT !.caller = s, !.target = g]

GroupAdd(g, s) ==
  /\ stage = "idle"
  /\ Setup
  /\ Changed(groupAdd(group, spr, g, s), "add", g, s)
  /\ UNCHANGED <<calls, quadTree, shapeVars>>

GroupRemove(g, s) ==
  /\ stage = "idle"
  /\ Step
  /\ Changed(groupRemove(group, spr, g, s), "groupRemove", g, s)
  /\ UNCHANGED <<calls, quadTree, shapeVars>>

GroupClear(g) ==
  /\ stage = "idle"
  /\ Step
  /\ Changed([G |-> groupClear(group, g), S |-> spr], "clear", g, 0)
  /\ UNCHANGED <<calls, quadTree, shapeVars>>

\* s.remove() up to its loop: this.removed = true; quadTree.removeObject(this)
RemoveCalled(s) ==
  /\ stage = "idle"
  /\ Step
  /\ spr' = [spr EXCEPT ![s].removed = TRUE]
  /\ quadTree' = removeObject(quadTree, s)
  /\ stage' = "removing"
  /\ last' = [Did("remove") EXCEPT !.caller = s]
  /\ UNCHANGED <<calls, group, shapeA, shapeB, mtv>>

\* one round of while (this.groups.length > 0) this.groups[0].remove(this)
RemoveRound ==
  /\ stage = "removing"
  /\ spr[last.caller].groups # <<>>
  /\ \E r \in {groupRemove(group, spr, spr[last.caller].groups[1], last.caller)} :
       group' = r.G /\ spr' = r.S
  /\ UNCHANGED <<calls, last, budget, quadTree, shapeVars>>

\* the loop is left and remove() returns
RemoveReturns ==
  /\ stage = "removing"
  /\ spr[last.caller].groups = <<>>
  /\ stage' = "idle"
  /\ UNCHANGED <<spr, calls, last, budget, group, quadTree, shapeA, shapeB, mtv>>

NextMembers ==
  \/ \E g \in 1..2, s \in DOMAIN spr : GroupAdd(g, s)
  \/ \E g \in 1..2, s \in DOMAIN spr : GroupRemove(g, s)
  \/ \E g \in 1..2 : GroupClear(g)
  \/ \E s \in DOMAIN spr : RemoveCalled(s)
  \/ RemoveRound
  \/ RemoveReturns

SpecMembers == InitMembers /\ [][NextMembers]_vars

\* a remove() that was called goes on running
FairMembers == SpecMembers /\ WF_vars(RemoveRound) /\ WF_vars(RemoveReturns)

-----------------------------------------------------------------------------
(* A call against a group whose callback removes the sprite it is given *)

\* function(self, other) { other.remove(); } after the pair collided: the
\* sprite is marked and taken out of the index and of the group. lv carries
\* the state of _collideWith's loop, the array it iterates (others), whether
\* that array is the group itself (live), the group, the index, and the
\* sprites _collideWithOne was called with.
OtherRemoved(lv, o) ==
  [lv EXCEPT !.st.S[o].removed = TRUE,
             !.qt = removeObject(@, o),
             !.members = Without(@, o, 1),
             !.others = IF lv.live THEN Without(@, o, 1) ELSE @]

AfterOne(lv, st, o) ==
  IF st.hit
  THEN OtherRemoved([lv EXCEPT !.st = st, !.tested = Append(@, o)], o)
  ELSE [lv EXCEPT !.st = st, !.tested = Append(@, o)]

\* for (var i = 0; i < others.length; i++)
\*   result = this._collideWithOne(type, others[i], callback) || result;
RECURSIVE collideLoopRemoving(_, _, _, _)
collideLoopRemoving(lv, type, a, i) ==
  IF i > Len(lv.others) \/ lv.st.threw THEN lv
  ELSE collideLoopRemoving(
         AfterOne(lv, collideWithOne(lv.st, type, a, lv.others[i], TRUE), lv.others[i]),
         type, a, i + 1)

\* _collideWith with a group as the target: others is what the active index
\* retrieves from the group, a new array, or else the group itself
LoopStart(S, a, members, qt, found) ==
  [st |-> Started([S EXCEPT ![a].touching = NoTouching]),
   others |-> IF Len(found) = 0 THEN members ELSE found,
   live |-> Len(found) = 0,
   members |-> members, qt |-> qt, tested |-> <<>>]

collideWithRemoving(S, type, a, members, qt) ==
  IF S[a].removed
  THEN [LoopStart(S, a, members, qt, <<>>) EXCEPT !.others = <<>>]
  ELSE collideLoopRemoving(
         LoopStart(S, a, members, qt,
                   IF qt.active THEN retrieveFromGroup(qt, members) ELSE <<>>),
         type, a, 1)

\* <<x of sprite 2, x of sprite 3>>: the caller, at the origin, overlaps
\* both, or only one of them
RemovingScenes == {<<1, -1>>, <<1, 50>>, <<50, 1>>}

\* the index is disabled, or enabled and holding every sprite
InitRemoving ==
  /\ \E sc \in RemovingScenes, cfg \in {"rectangle", "circle"} :
       spr = [s \in {1, 2, 3} |->
                IF s = 1 THEN Created(VZero, VZero, FALSE, cfg)
                ELSE Created(VecI(sc[s - 1], 0), VZero, FALSE, cfg)]
  /\ calls = <<>>
  /\ last = [NoOp EXCEPT !.op = "init"] @@ [pre |-> spr, tested |-> <<>>, members |-> <<>>]
  /\ budget = FullBudget
  /\ group \in {<<2, 3>>, <<3, 2>>, <<1, 2, 3>>}
  /\ quadTree \in {EmptyQuadTree, [active |-> TRUE, objects |-> <<1, 2, 3>>]}
  /\ IdleShapes

\* a.overlap(group, cb), ..., a.bounceOff(group, cb) with that callback
Returned(method, a, r) ==
  /\ spr' = r.st.S
  /\ calls' = r.st.log
  /\ group' = r.members
  /\ quadTree' = r.qt
  /\ last' = [op |-> "policy", method |-> method, caller |-> a,
              target |-> 0, many |-> TRUE, others |-> r.others,
              args |-> <<>>, result |-> r.st.result, threw |-> r.st.threw,
              sub |-> r.st.sub, mtvs |-> r.st.mtvs, pre |-> spr,
              tested |-> r.tested, members |-> group]

CallRemoving(method, a) ==
  /\ Step
  /\ Returned(method, a, collideWithRemoving(spr, TypeOf(method), a, group, quadTree))
  /\ UNCHANGED shapeVars

RemovingUpdate ==
  /\ Setup
  /\ spr' = [s \in DOMAIN spr |-> SpriteUpdate(spr[s])]
  /\ last' = Did("update") @@ [tested |-> <<>>, members |-> group]
  /\ UNCHANGED <<calls, group, quadTree, shapeVars>>

NextRemoving ==
  \/ RemovingUpdate
  \/ \E m \in Methods, a \in DOMAIN spr : CallRemoving(m, a)

SpecRemoving == InitRemoving /\ [][NextRemoving]_vars

-----------------------------------------------------------------------------
(* collide on two shapes of any of the four variants *)

\* a point, a circle of radius 1, an axis-aligned box of 2 x 2 and a box of
\* 2 x 2 rotated by the angle of cosine 3/5, centred at c
VariantsAt(c) ==
  { PointCollider(c, VZero),
    CircleCollider(c, VZero, QOne, FALSE),
    AABBCollider(c, VZero, Q(2), Q(2), FALSE),
    OBBCollider(c, VZero, Q(2), Q(2), Vec(Frac(3, 5), Frac(4, 5)), FALSE) }

MaxOffset == 2

InitVariants ==
  /\ shapeA \in VariantsAt(VZero)
  /\ \E x, y \in (0 - MaxOffset)..MaxOffset : shapeB \in VariantsAt(VecI(x, y))
  /\ mtv = VZero
  /\ stage = "input"
  /\ spr = <<>>
  /\ calls = <<>>
  /\ last = [NoOp EXCEPT !.op = "init"] @@ [pre |-> <<>>]
  /\ budget = FullBudget
  /\ group = <<>>
  /\ quadTree = EmptyQuadTree

\* shapeA.collide(shapeB): the displacement it returns, or the error it
\* throws, for the pairs whose displacement is a rational vector
Collided(r) ==
  /\ mtv' = r.d
  /\ stage' = IF r.threw THEN "threw" ELSE "collided"

CollideVariants ==
  /\ stage = "input"
  /\ RationalMTV(shapeA, shapeB)
  /\ Collided(CollideResult(shapeA, shapeB))
  /\ UNCHANGED <<shapeA, shapeB, spriteVars>>

SpecVariants == InitVariants /\ [][CollideVariants]_vars

-----------------------------------------------------------------------------
(* Sub-step count *)

\* 0.015 * 66 < 1 <= 0.015 * 67
MaxSubSteps == 66

\* C21: every _findDisplacement returns (or throws) after at most 66
\* sub-steps, whatever the relative velocity and the minimum radius of the
\* two colliders.
SubStepsAreBounded ==
  last.op = "findDisplacement" => last.samples <= MaxSubSteps

\* two shapes of minimum radius 0, the caller at 400 a step: the timestep is
\* the lower limit 0.015, every one of the 66 sub-steps misses the target,
\* and so does the final test
AllSubStepsSampled ==
  /\ last.op = "findDisplacement" /\ ~last.threw /\ ~last.result
  /\ last.samples = MaxSubSteps
  /\ getMinRadius(last.pre[last.caller].collider) = QZero
  /\ getMinRadius(last.pre[last.target].collider) = QZero
  /\ last.pre[last.caller].velocity = VecI(400, 0)

-----------------------------------------------------------------------------
(* Removed sprites and the index *)

\* C22: a removed sprite is a member of no group and is not stored in the
\* index, right after remove() and after every later rebuild of the index.
RemovedIsGone ==
  \A s \in DOMAIN spr :
    spr[s].removed => ~contains(group, s) /\ ~contains(Stored, s)

\* a sprite that moved out of the quadrant of the node that holds it was
\* removed, and the index was rebuilt after that: the index holds the
\* removed sprite
RemovedIsStoredAgain ==
  /\ last.op = "updateTree"
  /\ \E s \in DOMAIN spr :
       /\ spr[s].removed /\ contains(Stored, s)
       /\ ~contains(group, s)
       /\ spr[s].position # TreePlaces[s]

-----------------------------------------------------------------------------
(* The bounds of the root *)

RootIs(b) == quadTree.nodes[<<>>].bounds = b
Xs == {spr[Stored[i]].position.x : i \in DOMAIN Stored}
Ys == {spr[Stored[i]].position.y : i \in DOMAIN Stored}
Least(qs) == CHOOSE q \in qs : \A r \in qs : QLe(q, r)
Largest(qs) == CHOOSE q \in qs : \A r \in qs : QLe(r, q)

\* C23: after updateBounds() on a tree that holds sprites, the bounds of
\* the root are the bounding box of the positions of the stored sprites:
\* x and y the least x and y, width and height the largest x and y minus
\* the least.
BoundsAreBoundingBox ==
  last.op = "updateBounds" /\ Stored # <<>> =>
    RootIs([x |-> Least(Xs), y |-> Least(Ys),
            width |-> QSub(Largest(Xs), Least(Xs)),
            height |-> QSub(Largest(Ys), Least(Ys))])

\* after updateBounds() width and height are the largest x and y
\* themselves, and a stored sprite lies to the right of x + width
PositionOutsideBounds ==
  /\ last.op = "updateBounds" /\ Stored # <<>>
  /\ RootIs([x |-> Least(Xs), y |-> Least(Ys),
             width |-> Largest(Xs), height |-> Largest(Ys)])
  /\ \E i \in DOMAIN Stored :
       QLt(QAdd(quadTree.nodes[<<>>].bounds.x, quadTree.nodes[<<>>].bounds.width),
           spr[Stored[i]].position.x)

-----------------------------------------------------------------------------
(* The index and exhaustive testing *)

\* the last call against the group, made on every member of the group
Exhaustive == collideWith(last.pre, TypeOf(last.method), last.caller, group, TRUE)

\* C24: a call of a sprite against the group returns the same result and
\* invokes the callback for the same pairs with the index enabled, whatever
\* it holds, as with every member of the group tested.
IndexMakesNoDifference ==
  IsPolicy /\ last.many /\ ~last.threw =>
    /\ last.result = Exhaustive.result
    /\ Range(calls) = Range(Exhaustive.log)

\* the enabled index holds a member of the group that is far from the
\* caller and not the member the caller overlaps: the call tests only the
\* first, returns false and invokes no callback, where the test of every
\* member returns true
UnindexedMemberIsMissed ==
  /\ IsPolicy /\ last.many /\ ~last.threw
  /\ quadTree.active
  /\ quadTree.objects # <<>>
  /\ \E s \in Range(group) \ Range(quadTree.objects) :
       /\ s # last.caller
       /\ overlap(last.pre[last.caller].collider, last.pre[s].collider)
       /\ <<last.caller, s>> \in Range(Exhaustive.log)
  /\ ~last.result /\ calls = <<>>
  /\ Exhaustive.result

-----------------------------------------------------------------------------
(* updateSprites and sprites that expire *)

\* how many times update() was called on sprite s in the last cycle
UpdateCalls(s) == Cardinality({i \in DOMAIN last.others : last.others[i] = s})

\* C25: updateSprites() calls update() exactly once on every sprite that
\* is in allSprites when the cycle starts, also in a cycle in which a
\* sprite's life reaches 0 and the sprite removes itself.
EachSpriteUpdatedOnce ==
  last.op = "updateSprites" =>
    \A s \in Range(last.all) : ~last.pre[s].removed => UpdateCalls(s) = 1

\* a sprite's life reached 0 in the cycle and it removed itself: the sprite
\* that came after it in allSprites got no update() call and did not move
\* or age
SpriteAfterExpiredIsSkipped ==
  /\ last.op = "updateSprites"
  /\ \E i \in DOMAIN last.all :
       /\ i < Len(last.all)
       /\ last.pre[last.all[i]].life = 1
       /\ spr[last.all[i]].removed
       /\ ~contains(group, last.all[i])
       /\ ~last.pre[last.all[i + 1]].removed
       /\ UpdateCalls(last.all[i + 1]) = 0
       /\ spr[last.all[i + 1]] = last.pre[last.all[i + 1]]

-----------------------------------------------------------------------------
(* Membership in groups *)

\* C26: outside a running remove(), a sprite is a member of a group if and
\* only if the group is in the sprite's groups, after any sequence of
\* Group.add, Group.remove, Group.clear and Sprite.remove; and a remove()
\* that was called returns.
MembershipIsSymmetric ==
  stage = "idle" =>
    \A s \in DOMAIN spr, g \in DOMAIN group :
      contains(group[g], s) <=> contains(spr[s].groups, g)

\* every remove() that was called returns (violated under FairMembers: the
\* rounds of the loop that change nothing go on for ever)
RemoveTerminates == (stage = "removing") ~> (stage = "idle")

\* allSprites.clear() left the group in the sprite's groups; the sprite's
\* remove() is in its loop, the first of its groups does not hold the
\* sprite, and a round of the loop changes nothing: remove() does not return
RemoveDoesNotReturn ==
  /\ stage = "removing"
  /\ spr[last.caller].groups # <<>>
  /\ ~contains(group[spr[last.caller].groups[1]], last.caller)
  /\ groupRemove(group, spr, spr[last.caller].groups[1], last.caller)
       = [G |-> group, S |-> spr]

-----------------------------------------------------------------------------
(* Callbacks that remove the target *)

\* C27: in a call against a group whose callback removes the sprite that
\* collided, every member of the group that is not the caller and is not
\* removed when the call returns was tested against the caller in the call.
EveryMemberIsTested ==
  IsPolicy /\ last.many /\ ~last.threw /\ ~last.pre[last.caller].removed =>
    \A m \in Range(last.members) :
      m # last.caller /\ ~spr[m].removed => m \in Range(last.tested)

\* the caller overlaps two members of the group; the callback removed the
\* first, the second took its place in the array and the loop went past it:
\* it was not tested and is still there, overlapping the caller
MemberAfterRemovedIsMissed ==
  /\ IsPolicy /\ last.many /\ last.method = "overlap"
  /\ \E i \in DOMAIN last.members :
       /\ i < Len(last.members)
       /\ spr[last.members[i]].removed /\ ~last.pre[last.members[i]].removed
       /\ ~spr[last.members[i + 1]].removed
       /\ last.members[i + 1] # last.caller
       /\ last.members[i + 1] \notin Range(last.tested)
       /\ contains(group, last.members[i + 1])
       /\ overlap(spr[last.caller].collider, spr[last.members[i + 1]].collider)

-----------------------------------------------------------------------------
(* collide and the four variants *)

BothPoints == shapeA.kind = "point" /\ shapeB.kind = "point"

\* C28: collide returns a vector for every pair of shape variants and
\* throws no error; for two points the vector is zero.
CollideAlwaysReturns ==
  stage # "input" => stage = "collided" /\ (BothPoints => mtv = VZero)

\* two points, which give no candidate axis: collide threw the TypeError
\* of null.copy() and returned nothing
PointsThrow ==
  /\ stage = "threw"
  /\ BothPoints
  /\ getCandidateAxesForShapes(shapeA, shapeB) = <<>>

-----------------------------------------------------------------------------
(* The velocity response and the sprites that are held in place *)

HasVelocityResponse == IsPolicy /\ last.method \in {"collide", "bounce", "bounceOff"}

\* the sprite is treated as immovable by the call: its flag is set, or it is
\* the target of collide or bounceOff
HeldInPlace(s) ==
  \/ last.pre[s].immovable
  \/ /\ last.method \in {"collide", "bounceOff"}
     /\ s # last.caller
     /\ s = last.target \/ last.many

-----------------------------------------------------------------------------
(* The game: setup() and draw() of the sketch *)

\* spr is the list of the sprites in the order of their creation: the tower,
\* the ghost, then a door and a climber for every spawn. group is the list of
\* the groups: allSprites, doorsGroup, climbersGroup. stage is gameState.
Tower == 1
Ghost == 2
AllSprites == 1
DoorsGroup == 2
ClimbersGroup == 3

\* the images are not part of the sources: tower, door and climber have the
\* size ImageSize, the ghost, drawn at the scale 0.3, the size GhostSize
ImageSize == 100
GhostSize == 15

\* createSprite and addImage of a preloaded image
GameSprite(pos, size) ==
  NewSprite(pos, VZero, Q(size), Q(size), FALSE, "loaded")
    @@ [life |-> -1, groups |-> <<AllSprites>>]

\* the frames that are followed, and the times the player steers
MaxFrames == 605
MaxTurns == 1

\* the player: space is held down in the frames in which the ghost is at or
\* below its starting height, for so many frames; then no more
Patience == {0, 276, 400, MaxFrames}

\* the values of Math.round(random(100, 400)) that are followed
DoorPlaces == {100, 240, 300}

InitGame ==
  /\ spr = << [GameSprite(VecI(300, 300), ImageSize) EXCEPT !.velocity = VecI(0, 1)],
              GameSprite(VecI(300, 300), GhostSize) >>
  /\ group = << <<Tower, Ghost>>, <<>>, <<>> >>
  /\ stage = "play"
  /\ \E p \in Patience : budget = [steps |-> MaxFrames, setups |-> MaxTurns, patience |-> p]
  /\ last = [NoOp EXCEPT !.op = "setup"] @@ [frameCount |-> 0, pre |-> [gameState |-> "play", sprites |-> 2]]
  /\ calls = <<>>
  /\ quadTree = EmptyQuadTree
  /\ shapeA = PointCollider(VZero, VZero)
  /\ shapeB = PointCollider(VZero, VZero)
  /\ mtv = VZero

\* sprite.remove(): the sprite leaves the index and the groups it is in.
\* r carries the sprites, the groups and the index.
RECURSIVE leaveGroups(_, _)
leaveGroups(r, s) ==
  IF r.S[s].groups = <<>> THEN r
  ELSE leaveGroups([r EXCEPT !.G = groupRemove(r.G, r.S, r.S[s].groups[1], s).G,
                             !.S = groupRemove(r.G, r.S, r.S[s].groups[1], s).S], s)

spriteRemove(r, s) ==
  leaveGroups([r EXCEPT !.S[s].removed = TRUE, !.qt = removeObject(@, s)], s)

\* allSprites.get(i).update(), with the countdown of the life at its end
Outlived(r, s) == IF r.S[s].life = 0 THEN spriteRemove(r, s) ELSE r

updateOne(r, s) == Outlived([r EXCEPT !.S[s] = Aged(SpriteUpdate(@))], s)

\* the 'pre' method updateSprites() of every frame
RECURSIVE updateEach(_, _)
updateEach(r, i) ==
  IF i > Len(r.G[AllSprites]) THEN r
  ELSE updateEach(updateOne(r, r.G[AllSprites][i]), i + 1)

\* draw(): the arrow keys, the space key and the gravity
Steered(sp, left, right, space) ==
  [sp EXCEPT !.position.x = QAdd(QSub(@, IF left THEN Q(3) ELSE QZero),
                                 IF right THEN Q(3) ELSE QZero),
             !.velocity.y = QAdd(IF space THEN Q(0 - 10) ELSE @, Frac(4, 5))]

\* if (tower.y > 400) tower.y = 300
Rewound(sp) ==
  IF QLt(Q(400), sp.position.y) THEN [sp EXCEPT !.position.y = Q(300)] ELSE sp

\* createSprite(200, y); sprite.x = x; addImage; velocityY = 1; lifetime = 800;
\* and the group it is added to
SpawnedSprite(x, y, g) ==
  [GameSprite(VecI(200, y), ImageSize) EXCEPT
     !.position.x = Q(x), !.velocity = VecI(0, 1), !.life = 800,
     !.groups = <<AllSprites, g>>]

\* spawnDoors()
spawnDoors(r, frameCount, x) ==
  IF frameCount % 300 = 0
  THEN [r EXCEPT
          !.S = @ \o << SpawnedSprite(x, 0 - 50, DoorsGroup),
                        SpawnedSprite(x, 10, ClimbersGroup) >>,
          !.G = [@ EXCEPT ![AllSprites] = @ \o <<Len(r.S) + 1, Len(r.S) + 2>>,
                          ![DoorsGroup] = Append(@, Len(r.S) + 1),
                          ![ClimbersGroup] = Append(@, Len(r.S) + 2)]]
  ELSE r

\* one round of the loop of _groupCollide
Together(r, c) ==
  [r EXCEPT !.S = c.S, !.result = @ \/ c.result, !.threw = c.threw]

\* group.isTouching(target): for (i < this.size())
\*   didCollide = this.get(i)._collideWith('overlap', target) || didCollide
RECURSIVE groupCollide(_, _, _, _, _)
groupCollide(r, type, g, target, i) ==
  IF r.threw \/ i > Len(r.G[g]) THEN r
  ELSE groupCollide(Together(r, collideWith(r.S, type, r.G[g][i], <<target>>, FALSE)),
                    type, g, target, i + 1)

\* GhostLost of a draw() that ends the game in any case
GhostLostAlways(r) == TRUE

\* climbersGroup.isTouching(ghost) || ghost.y > 600

GhostLost(r) == r.result \/ QLt(Q(600), r.S[Ghost].position.y)

\* ghost.velocityY = 0; ghost.destroy(); gameState = "end"
Ended(r) ==
  spriteRemove([r EXCEPT !.S[Ghost].velocity.y = QZero, !.gameState = "end"], Ghost)

Judged(r) == IF ~r.threw /\ GhostLost(r) THEN Ended(r) ELSE r

\* draw()
draw(r, frameCount, left, right, space, x) ==
  IF r.gameState = "play"
  THEN Judged(groupCollide(
         spawnDoors([r EXCEPT !.S[Ghost] = Steered(@, left, right, space),
                              !.S[Tower] = Rewound(@)],
                    frameCount, x),
         "overlap", ClimbersGroup, Ghost, 1))
  ELSE r

\* the keys the player holds in this frame
Played(left, right, space) ==
  /\ left \/ right => stage = "play" /\ budget.setups > 0
  /\ space <=> /\ stage = "play"
               /\ budget.patience > 0
               /\ QLe(Q(300), spr[Ghost].position.y)

\* one frame: frameCount is incremented, the 'pre' method updateSprites(),
\* then draw()
Redraw(left, right, space, x) ==
  /\ budget.steps > 0
  /\ Played(left, right, space)
  /\ (last.frameCount + 1) % 300 # 0 \/ stage # "play" => x = 100
  /\ budget' = [steps |-> budget.steps - 1,
                setups |-> budget.setups - (IF left \/ right THEN 1 ELSE 0),
                patience |-> budget.patience - (IF budget.patience > 0 THEN 1 ELSE 0)]
  /\ \E d \in {draw(updateEach([S |-> spr, G |-> group, qt |-> quadTree,
                                gameState |-> stage, result |-> FALSE,
                                threw |-> FALSE], 1),
                    last.frameCount + 1, left, right, space, x)} :
       /\ spr' = d.S
       /\ group' = d.G
       /\ quadTree' = d.qt
       /\ stage' = d.gameState
       /\ last' = [NoOp EXCEPT !.op = "draw", !.result = d.result, !.threw = d.threw]
                    @@ [frameCount |-> last.frameCount + 1,
                        pre |-> [gameState |-> stage, sprites |-> Len(spr)]]
  /\ UNCHANGED <<calls, shapeA, shapeB, mtv>>

NextGame == \E left, right, space \in BOOLEAN, x \in DoorPlaces : Redraw(left, right, space, x)

SpecGame == InitGame /\ [][NextGame]_vars

-----------------------------------------------------------------------------
(* The state of the game *)

GhostFell == QLt(Q(600), spr[Ghost].position.y)

\* the collider of the ghost overlaps the collider of a climber of the group
GhostTouchesClimber ==
  \E i \in DOMAIN group[ClimbersGroup] :
     /\ HasShape(spr[group[ClimbersGroup][i]].collider) /\ HasShape(spr[Ghost].collider)
     /\ overlap(spr[group[ClimbersGroup][i]].collider, spr[Ghost].collider)

\* C30: gameState changes only from "play" to "end", and only in a draw call
\* in which the ghost touches a climber of climbersGroup or ghost.y > 600;
\* from "end" it never goes back to "play"; when it is "end" the ghost is
\* removed, and no door and no climber is spawned any more
GameOnlyEnds ==
  /\ stage \in {"play", "end"}
  /\ last.op = "draw" =>
       /\ stage # last.pre.gameState =>
            /\ last.pre.gameState = "play" /\ stage = "end"
            /\ GhostTouchesClimber \/ GhostFell
       /\ last.pre.gameState = "end" => stage = "end" /\ Len(spr) = last.pre.sprites
  /\ stage = "end" => spr[Ghost].removed /\ ~contains(group[AllSprites], Ghost)

\* the game ended on a climber, not by a fall, and the frame of the next spawn
\* has passed without one
GameEndedOnClimber ==
  /\ stage = "end" /\ spr[Ghost].removed
  /\ ~GhostFell
  /\ Len(spr) = 4
  /\ last.op = "draw" /\ last.frameCount >= 600
=============================================================================
